---- MODULE Spec2Model ----
(***************************************************************************)
(* Cloud-ASTRA: intent-aware, multi-tier detection and remediation.        *)
(*                                                                         *)
(* The module models, from the Python sources,                             *)
(*   - the Remediation Orchestrator (fixer_agent/fixer_agent.py and        *)
(*     fixer_agent/executor.py),                                           *)
(*   - the Intent Classifiers of the four resource types,                  *)
(*   - the Safety Classifier (_should_auto_apply) of the agents,           *)
(*   - the Finding Deduplicator (_deduplicate_findings), and               *)
(*   - the tier gating of the agents' scan loops.                          *)
(*                                                                         *)
(* Confidences are kept in hundredths (100 stands for 1.0): every value    *)
(* the classifiers add is a multiple of 0.1 and the divisors are 2.0, 2.5  *)
(* and 10.0, so hundredths are exact.                                      *)
(***************************************************************************)
EXTENDS Integers, Sequences, FiniteSets, TLC

VARIABLES
    \* ---- Remediation Orchestrator (FixerAgent.apply / Executor.run) ----
    fx_pc,          \* "idle", "start", "loop", "retry", "done"
    fx_input,       \* the argument of apply: [shape, items]
    fx_clients,     \* TRUE when Executor.__init__ built its boto3 clients
    findings,       \* apply's local list after the flattening step
    fx_i,           \* index (1-based) of the finding the loop is at
    attempt,        \* attempts made so far by Executor.run on that finding
    fx_calls,       \* ghost: per finding index, number of fix calls issued
    fx_oks,         \* ghost: per finding index, number of successful calls
    fx_after_ok,    \* ghost: TRUE once a call was issued after a success
    fx_last_err,    \* ghost: the error run() logged last, <<index, attempt>>
    fx_step_errs,   \* ghost: <<index, errors>>, the "errors" list of the last fix call
    applied_fixes,  \* apply's applied_fixes list
    pending_fixes,  \* apply's pending_fixes list
    \* ---- Intent Classifier and Safety Classifier (agents' scan loops) ----
    ic_pc,          \* "idle", "detect", "rules", "next", "done"
    ic_svc,         \* the agent: "s3", "ec2", "iam", "lambda"
    ic_mode,        \* "scan": the agent's loop; "call": detect_intent alone
    ic_n,           \* resources handled so far
    ic_res,         \* the resource at hand
    ic_label,       \* user_intent handed to detect_intent
    ic_desc,        \* user_description handed to detect_intent
    ic_result,      \* <<intent, confidence, reasoning>> of detect_intent
    ic_rule_conf,   \* attribute intent_confidence of the intent-aware rules
    ic_findings,    \* Tier 1 findings of the resource at hand
    ic_decided,     \* ghost: the calls of _should_auto_apply in the rule loop, with what they returned
    \* ---- Finding Deduplicator (_deduplicate_findings) ----
    dd_pc,          \* "idle", "call", "done"
    dd_input,       \* the list handed to _deduplicate_findings
    dd_result,      \* the list it returned
    \* ---- Tiered Detector (S3Agent / EC2Agent / IAMAgent .scan) ----
    sc_pc,          \* "idle", "tier1", "fallback", "tier2", "tier3", "return", "done", "dispatched"
    sc_svc,         \* the agent: "s3", "ec2", "iam"
    sc_llm,         \* TRUE when __init__ could build the LLMSecurityAnalyzer
    sc_names,       \* names of the resources the scan goes through, in order
    sc_i,           \* position of the running loop in that list
    sc_findings,    \* scan's local list "findings"
    sc_t12,         \* ghost: per resource, findings Tier 1 and Tier 2 produced
    sc_llm_calls,   \* ghost: per resource, calls of the generative fallback
    sc_result,      \* [exception, value]: what scan raised or returned
    sc_results,     \* the dispatcher's results[service] ("unset" before)
    sc_intent_input, \* the argument user_intent_input of scan
    sc_used,        \* ghost: <<stage, resource, user_intent>> given to detect_intent
    sc_intent,      \* the locals "intent, confidence" of scan: what detect_intent returned last
    sc_searched,    \* ghost: the resources the knowledge search was called for
    sc_response,    \* ghost: what the generative model answered at the last Tier 3 step
    \* ---- Rule Engine (the rule loop of scan / analyze, check by check) ----
    rl_pc,          \* "idle", "rules", "done"
    rl_svc,         \* the agent: "s3", "ec2", "iam", "lambda"
    rl_resources,   \* the resources the loop goes through, in order
    rl_pos,         \* <<resource, rule>> the loop is at
    rl_events,      \* ghost: checks so far that found an issue or raised
    rl_checked,     \* ghost: the <<resource, rule>> whose check was called
    rl_raised,      \* ghost: the <<resource, rule>> whose check raised
    rl_findings,    \* the local list "findings"
    rl_cancelled,   \* ghost: the caller gave the scan up (cancelled it, or its deadline passed)
    \* ---- Scan Pipeline (SupervisorAgent.scan_and_fix for one service) ----
    pl_pc,          \* "idle", "new", "apply", "done", "raised", "manual"
    pl_creds,       \* self.creds of the supervisor: "None" until assume() succeeds
    pl_auto_fix,    \* the request's auto_fix as api_scan read it
    pl_raised,      \* the supervisor method that raised RuntimeError, or "None"
    pl_manual,      \* what apply_manual_fix returned
    pl_svc,         \* the service argument: "s3" or "ec2"
    pl_case,        \* ghost: the resource scanned, its intent and the rule that fired
    pl_scan,        \* ghost: [exception, value] of the agent's scan
    pl_findings,    \* the dict dispatch returned: [findings |-> [service |-> list]]
    pl_report,      \* the dict scan_and_fix returned
    \* ---- Safety Classifier called twice (_should_auto_apply in two passes of a scan) ----
    dc_pc,          \* "idle", "first", "between", "second", "done"
    dc_input,       \* [svc, rule, intent, confidence, state]: the inputs of the decision
    dc_attrs,       \* attributes intent_confidence and risk_score of the rule object
    dc_other,       \* ghost: the attributes another resource left on the rule in between
    dc_decisions,   \* the booleans _should_auto_apply returned, in order
    \* ---- Configuration reads (what each stage of one scan reads of one resource) ----
    sn_pc,          \* "idle", "tier1", "tier2", "tier3", "done"
    sn_svc,         \* the agent: "s3", "lambda"
    sn_llm,         \* self.llm_analyzer is set
    sn_live,        \* the configuration the service returns when asked now
    sn_rule,        \* the rule the Tier 1 loop is at
    sn_count,       \* findings of the resource so far
    sn_seen,        \* ghost: the configuration each stage was given
    \* ---- One bucket scanned alone and among others (the versioning rule of S3Agent.scan) ----
    od_pc,          \* "idle", "scan", "done"
    od_target,      \* the bucket whose findings are compared
    od_scans,       \* two scans, each by an S3Agent of its own: [buckets, i, fix_instructions, findings]
    \* ---- Calls to the cloud provider during a scan of one bucket and the fixes that follow ----
    ca_pc,          \* "idle", "list", "intent", "rules", "config", "apply", "done"
    ca_intent,      \* <<intent, confidence>> detect_intent returned for the bucket
    ca_rule,        \* position of the rule loop in self.rules
    ca_findings,    \* the findings of the scan, as the fixer gets them
    ca_k,           \* position of the loop of FixerAgent.apply
    ca_calls        \* ghost: the client methods called so far, with the phase and the finding they were called for

fxVars == <<fx_pc, fx_input, fx_clients, findings, fx_i, attempt, fx_calls,
            fx_oks, fx_after_ok, fx_last_err, fx_step_errs, applied_fixes,
            pending_fixes>>

icVars == <<ic_pc, ic_svc, ic_mode, ic_n, ic_res, ic_label, ic_desc, ic_result,
            ic_rule_conf, ic_findings, ic_decided>>

ddVars == <<dd_pc, dd_input, dd_result>>

scVars == <<sc_pc, sc_svc, sc_llm, sc_names, sc_i, sc_findings, sc_t12,
            sc_llm_calls, sc_result, sc_results, sc_intent_input, sc_used,
            sc_intent,
            sc_searched, sc_response>>

rlVars == <<rl_pc, rl_svc, rl_resources, rl_pos, rl_events, rl_checked, rl_raised, rl_findings,
            rl_cancelled>>

plVars == <<pl_pc, pl_svc, pl_case, pl_scan, pl_findings, pl_report,
           pl_creds, pl_auto_fix, pl_raised, pl_manual>>

dcVars == <<dc_pc, dc_input, dc_attrs, dc_other, dc_decisions>>

snVars == <<sn_pc, sn_svc, sn_llm, sn_live, sn_rule, sn_count, sn_seen>>

odVars == <<od_pc, od_target, od_scans>>

caVars == <<ca_pc, ca_intent, ca_rule, ca_findings, ca_k, ca_calls>>

vars == <<fxVars, icVars, ddVars, scVars, rlVars, plVars, dcVars, snVars, odVars, caVars>>

\* The variables each component leaves alone.
nonFxVars == <<icVars, ddVars, scVars, rlVars, plVars, dcVars, snVars, odVars, caVars>>

nonIcVars == <<fxVars, ddVars, scVars, rlVars, plVars, dcVars, snVars, odVars, caVars>>

nonDdVars == <<fxVars, icVars, scVars, rlVars, plVars, dcVars, snVars, odVars, caVars>>

nonScVars == <<fxVars, icVars, ddVars, rlVars, plVars, dcVars, snVars, odVars, caVars>>

nonRlVars == <<fxVars, icVars, ddVars, scVars, plVars, dcVars, snVars, odVars, caVars>>

nonPlVars == <<fxVars, icVars, ddVars, scVars, rlVars, dcVars, snVars, odVars, caVars>>

nonDcVars == <<fxVars, icVars, ddVars, scVars, rlVars, plVars, snVars, odVars, caVars>>

nonSnVars == <<fxVars, icVars, ddVars, scVars, rlVars, plVars, dcVars, odVars, caVars>>

nonOdVars == <<fxVars, icVars, ddVars, scVars, rlVars, plVars, dcVars, snVars, caVars>>

nonCaVars == <<fxVars, icVars, ddVars, scVars, rlVars, plVars, dcVars, snVars, odVars>>

\* A component that does not run in a specification stays idle.
FxIdle ==
    /\ fx_pc = "idle"
    /\ fx_input = <<>>
    /\ fx_clients = FALSE
    /\ findings = <<>>
    /\ fx_i = 1
    /\ attempt = 0
    /\ fx_calls = <<>>
    /\ fx_oks = <<>>
    /\ fx_after_ok = FALSE
    /\ fx_last_err = <<0, 0>>
    /\ fx_step_errs = <<0, {}>>
    /\ applied_fixes = <<>>
    /\ pending_fixes = <<>>

IcIdle ==
    /\ ic_pc = "idle"
    /\ ic_svc = "none"
    /\ ic_mode = "none"
    /\ ic_n = 0
    /\ ic_res = <<>>
    /\ ic_label = <<>>
    /\ ic_desc = <<>>
    /\ ic_result = <<>>
    /\ ic_rule_conf = 0
    /\ ic_findings = <<>>
    /\ ic_decided = <<>>

DdIdle ==
    /\ dd_pc = "idle"
    /\ dd_input = <<>>
    /\ dd_result = <<>>

ScIdle ==
    /\ sc_pc = "idle"
    /\ sc_svc = "none"
    /\ sc_llm = FALSE
    /\ sc_names = <<>>
    /\ sc_i = 1
    /\ sc_findings = <<>>
    /\ sc_t12 = <<>>
    /\ sc_llm_calls = <<>>
    /\ sc_result = <<>>
    /\ sc_results = "unset"
    /\ sc_intent_input = <<>>
    /\ sc_used = {}
    /\ sc_intent = [of |-> 0, user_intent |-> "None"]
    /\ sc_searched = {}
    /\ sc_response = [json |-> FALSE, shape |-> "unasked", findings |-> <<>>]

RlIdle ==
    /\ rl_pc = "idle"
    /\ rl_svc = "none"
    /\ rl_resources = <<>>
    /\ rl_pos = <<0, 0>>
    /\ rl_events = 0
    /\ rl_checked = {}
    /\ rl_raised = {}
    /\ rl_findings = <<>>
    /\ rl_cancelled = FALSE

PlIdle ==
    /\ pl_pc = "idle"
    /\ pl_creds = "None"
    /\ pl_auto_fix = TRUE
    /\ pl_raised = "None"
    /\ pl_manual = <<>>
    /\ pl_svc = "none"
    /\ pl_case = <<>>
    /\ pl_scan = <<>>
    /\ pl_findings = <<>>
    /\ pl_report = <<>>

DcIdle ==
    /\ dc_pc = "idle"
    /\ dc_input = <<>>
    /\ dc_attrs = <<>>
    /\ dc_other = <<>>
    /\ dc_decisions = <<>>

SnIdle ==
    /\ sn_pc = "idle"
    /\ sn_svc = "none"
    /\ sn_llm = FALSE
    /\ sn_live = "none"
    /\ sn_rule = 0
    /\ sn_count = 0
    /\ sn_seen = <<>>

OdIdle ==
    /\ od_pc = "idle"
    /\ od_target = <<>>
    /\ od_scans = <<>>

CaIdle ==
    /\ ca_pc = "idle"
    /\ ca_intent = <<>>
    /\ ca_rule = 0
    /\ ca_findings = <<>>
    /\ ca_k = 0
    /\ ca_calls = {}

(***************************************************************************)
(* Bounds of the model.                                                    *)
(***************************************************************************)
MaxFindings == 2

\* Resources one scan goes through.
MaxResources == 2

(***************************************************************************)
(* Python dict.get(key, default) on a record used as a dict.               *)
(***************************************************************************)
Get(d, key, default) ==
    IF key \in DOMAIN d THEN d[key] ELSE default

NoneVal == "None"

\* Python truthiness of a string-valued dict entry (None and "" are falsy).
Truthy(v) ==
    v \notin {NoneVal, ""}

(***************************************************************************)
(*                       REMEDIATION ORCHESTRATOR                          *)
(***************************************************************************)

\* fixer_agent/config.py is not part of the sources at hand; the retry
\* bound is the fixed number of attempts the specification names.
MAX_RETRIES == 3

\* S3Executor._get_fix_action: the fix action of a finding that carries none.
\* Every rule id without a mapped action gets "manual_review".
\* (named without the leading underscore of the source)
get_fix_action(rule_id) ==
    IF rule_id = "s3_public_access_block" THEN "fix_public_access"
    ELSE IF rule_id = "s3_website_hosting" THEN "fix_website_hosting"
    ELSE IF rule_id = "s3_unencrypted_bucket" THEN "rule_based_fix"
    ELSE "manual_review"

\* The (service, action) pairs the agents and S3Executor hand to the fixer.
FixTargets ==
    { <<"s3", get_fix_action("s3_public_access_block")>>,
      <<"s3", get_fix_action("s3_versioning_disabled")>>,
      <<"lambda", "adjust_timeout">>, <<"lambda", "manual_review">>,
      <<"ec2", "restrict_security_group">> }

\* A finding as the fixer reads it.  fix_instructions / can_auto_fix /
\* fix_type are optional keys: a finding either carries all three or none.
FixFinding(t, safe, issue, info) ==
    LET base == [service |-> t[1], resource |-> "r1", issue |-> issue,
                 fix |-> [action |-> t[2]], auto_safe |-> safe]
    IN  IF info
        THEN [k \in DOMAIN base \cup {"fix_instructions", "can_auto_fix", "fix_type"} |->
                IF k \in DOMAIN base THEN base[k]
                ELSE IF k = "fix_instructions" THEN <<"step 1">>
                ELSE IF k = "can_auto_fix" THEN TRUE
                ELSE "public_access_block"]
        ELSE base

FixFindings ==
    { FixFinding(t, safe, "Bucket allows public read access", info) :
        t \in FixTargets, safe \in BOOLEAN, info \in BOOLEAN }
    \cup { FixFinding(<<"s3", "manual_review">>, FALSE, "", FALSE) }

RECURSIVE SeqsUpTo(_, _)
SeqsUpTo(S, n) ==
    IF n = 0 THEN { <<>> }
    ELSE LET shorter == SeqsUpTo(S, n - 1)
         IN  shorter \cup { Append(s, x) : s \in { q \in shorter : Len(q) = n - 1 }, x \in S }

\* The three shapes apply() is handed: a plain list, a dict service -> list,
\* and the dispatcher's result {"findings": {service -> list}}.
InputShapes == {"list", "by_service", "wrapped"}

ServiceOrder == <<"s3", "ec2", "iam", "lambda">>

RECURSIVE ConcatByService(_, _)
ConcatByService(items, k) ==
    IF k > Len(ServiceOrder) THEN <<>>
    ELSE SelectSeq(items, LAMBDA f : f.service = ServiceOrder[k])
         \o ConcatByService(items, k + 1)

\* FixerAgent.apply, lines 22-29: a dict argument is flattened by extending
\* with every value that is a list.  The dispatcher's result has the single
\* key "findings" whose value is a dict, not a list, so nothing is kept.
Flatten(input) ==
    IF input.shape = "list" THEN input.items
    ELSE IF input.shape = "by_service" THEN ConcatByService(input.items, 1)
    ELSE <<>>

\* fixer_agent/utils.py format_finding:
\* f"[{finding['service'].upper()}] {finding['resource']}: {finding['issue']}"
format_finding(f) ==
    LET upper == CASE f.service = "s3" -> "S3"
                   [] f.service = "ec2" -> "EC2"
                   [] f.service = "iam" -> "IAM"
                   [] f.service = "lambda" -> "LAMBDA"
                   [] OTHER -> f.service
    IN  <<"[", upper, "] ", f.resource, ": ", f.issue>>

\* Executor.run: the branches that return False before any fix call.
ReturnsFalseMutNoManualBranch(f, clients) ==
    IF f.service = "lambda"
    THEN \/ ~clients
         \/ f.fix.action \notin {"adjust_timeout", "adjust_memory", "enable_logging"}
    ELSE \/ f.service # "s3"
         \/ ~clients

ReturnsFalseWithoutCall(f, clients) ==
    IF f.service = "lambda"
    THEN \/ ~clients
         \/ f.fix.action \notin {"adjust_timeout", "adjust_memory", "enable_logging"}
    ELSE \/ f.service # "s3"
         \/ ~clients
         \/ f.fix.action = "manual_review"

\* Executor.run: how many times the fix is tried.  The S3 branch loops
\* range(1, MAX_RETRIES + 1); the Lambda branch makes one call.
AttemptLimitMutOffByOne(f) ==
    IF f.service = "s3" THEN MAX_RETRIES + 1 ELSE 1

AttemptLimit(f) ==
    IF f.service = "s3" THEN MAX_RETRIES ELSE 1

\* One fix call as its sub-steps: each succeeds ("ok"), raises an error the
\* code passes over ("benign": NoSuchBucketPolicy, AccessControlListNotSupported)
\* or raises another error ("error").  _fix_public_access has three steps
\* (public access block, policy removal, private ACL); every other fix is a
\* single call.
FixCallSteps(f) ==
    IF f.service = "s3" /\ f.fix.action = "fix_public_access"
    THEN { <<a, b, c>> : a \in {"ok", "error"}, b \in {"ok", "benign", "error"},
                          c \in {"ok", "benign", "error"} }
    ELSE { <<"ok">>, <<"error">> }

\* _fix_public_access: the "errors" list, as the set of steps that added to it
StepErrors(steps) ==
    { n \in DOMAIN steps : steps[n] = "error" }

\* _fix_public_access returns when success_count > 0 and raises otherwise;
\* a single call returns unless it raises.
FixCallReturns(steps) ==
    \E n \in DOMAIN steps : steps[n] = "ok"

\* The outcome record apply() appends to applied_fixes.
Outcome(f, success) ==
    [resource |-> f.resource, issue |-> f.issue,
     status |-> IF success THEN "applied" ELSE "failed",
     details |-> format_finding(f)]

\* The record apply() appends to pending_fixes.
PendingFix(f) ==
    [resource |-> f.resource, issue |-> f.issue,
     fix_instructions |-> Get(f, "fix_instructions", <<>>),
     can_auto_fix |-> Get(f, "can_auto_fix", FALSE),
     fix_type |-> Get(f, "fix_type", NoneVal)]

FixInit ==
    /\ fx_pc = "start"
    /\ fx_input \in [shape : InputShapes, items : SeqsUpTo(FixFindings, MaxFindings)]
    /\ fx_clients \in BOOLEAN
    /\ findings = <<>>
    /\ fx_i = 1
    /\ attempt = 0
    /\ fx_calls = [k \in 1..MaxFindings |-> 0]
    /\ fx_oks = [k \in 1..MaxFindings |-> 0]
    /\ fx_after_ok = FALSE
    /\ fx_last_err = <<0, 0>>
    /\ fx_step_errs = <<0, {}>>
    /\ applied_fixes = <<>>
    /\ pending_fixes = <<>>
    /\ IcIdle
    /\ DdIdle
    /\ ScIdle
    /\ RlIdle
    /\ PlIdle
    /\ DcIdle
    /\ SnIdle
    /\ OdIdle
    /\ CaIdle

\* apply(), lines 19-29
Apply_Flatten ==
    /\ fx_pc = "start"
    /\ findings' = Flatten(fx_input)
    /\ fx_pc' = "loop"
    /\ UNCHANGED <<fx_input, fx_clients, fx_i, attempt, fx_calls, fx_oks,
                   fx_after_ok, fx_last_err, fx_step_errs, applied_fixes, pending_fixes>>
    /\ UNCHANGED nonFxVars

\* apply(), lines 33-36: a finding without resource or issue is passed over
Apply_Skip ==
    /\ fx_pc = "loop"
    /\ fx_i <= Len(findings)
    /\ \/ ~Truthy(Get(findings[fx_i], "resource", NoneVal))
       \/ ~Truthy(Get(findings[fx_i], "issue", NoneVal))
    /\ fx_i' = fx_i + 1
    /\ UNCHANGED <<fx_pc, fx_input, fx_clients, findings, attempt, fx_calls,
                   fx_oks, fx_after_ok, fx_last_err, fx_step_errs, applied_fixes, pending_fixes>>
    /\ UNCHANGED nonFxVars

Valid(f) ==
    /\ Truthy(Get(f, "resource", NoneVal))
    /\ Truthy(Get(f, "issue", NoneVal))

\* apply(), lines 46-55
Apply_Pending ==
    /\ fx_pc = "loop"
    /\ fx_i <= Len(findings)
    /\ Valid(findings[fx_i])
    /\ ~Get(findings[fx_i], "auto_safe", FALSE)
    /\ pending_fixes' = Append(pending_fixes, PendingFix(findings[fx_i]))
    /\ fx_i' = fx_i + 1
    /\ UNCHANGED <<fx_pc, fx_input, fx_clients, findings, attempt, fx_calls,
                   fx_oks, fx_after_ok, fx_last_err, fx_step_errs, applied_fixes>>
    /\ UNCHANGED nonFxVars

\* apply(), lines 38-45 with Executor.run returning False at once
Apply_RunRefused ==
    /\ fx_pc = "loop"
    /\ fx_i <= Len(findings)
    /\ Valid(findings[fx_i])
    /\ Get(findings[fx_i], "auto_safe", FALSE)
    /\ ReturnsFalseWithoutCall(findings[fx_i], fx_clients)
    /\ applied_fixes' = Append(applied_fixes, Outcome(findings[fx_i], FALSE))
    /\ fx_i' = fx_i + 1
    /\ UNCHANGED <<fx_pc, fx_input, fx_clients, findings, attempt, fx_calls,
                   fx_oks, fx_after_ok, fx_last_err, fx_step_errs, pending_fixes>>
    /\ UNCHANGED nonFxVars

\* apply(), line 39: Executor.run reaches its fix call
Apply_RunBegin ==
    /\ fx_pc = "loop"
    /\ fx_i <= Len(findings)
    /\ Valid(findings[fx_i])
    /\ Get(findings[fx_i], "auto_safe", FALSE)
    /\ ~ReturnsFalseWithoutCall(findings[fx_i], fx_clients)
    /\ fx_pc' = "retry"
    /\ attempt' = 0
    /\ UNCHANGED <<fx_input, fx_clients, findings, fx_i, fx_calls, fx_oks,
                   fx_after_ok, fx_last_err, fx_step_errs, applied_fixes, pending_fixes>>
    /\ UNCHANGED nonFxVars

\* Executor.run, one pass of the retry loop (lines 89-113), or the single
\* Lambda call (lines 66-78): the call succeeds or raises.
Run_Attempt(ok) ==
    /\ fx_pc = "retry"
    /\ attempt < AttemptLimit(findings[fx_i])
    /\ attempt' = attempt + 1
    /\ fx_calls' = [fx_calls EXCEPT ![fx_i] = @ + 1]
    /\ fx_after_ok' = (fx_after_ok \/ fx_oks[fx_i] > 0)
    /\ \E steps \in FixCallSteps(findings[fx_i]) :
        /\ FixCallReturns(steps) = ok
        /\ fx_step_errs' = <<fx_i, StepErrors(steps)>>
    /\ IF ok
       THEN /\ fx_oks' = [fx_oks EXCEPT ![fx_i] = @ + 1]
            /\ applied_fixes' = Append(applied_fixes, Outcome(findings[fx_i], TRUE))
            /\ fx_i' = fx_i + 1
            /\ fx_pc' = "loop"
            /\ UNCHANGED fx_last_err
       ELSE /\ fx_last_err' = <<fx_i, attempt + 1>>
            /\ UNCHANGED fx_oks
            /\ IF attempt + 1 >= AttemptLimit(findings[fx_i])
               THEN /\ applied_fixes' = Append(applied_fixes, Outcome(findings[fx_i], FALSE))
                    /\ fx_i' = fx_i + 1
                    /\ fx_pc' = "loop"
               ELSE UNCHANGED <<applied_fixes, fx_i, fx_pc>>
    /\ UNCHANGED <<fx_input, fx_clients, findings, pending_fixes>>
    /\ UNCHANGED nonFxVars

Run_AttemptOk == Run_Attempt(TRUE)

Run_AttemptFails == Run_Attempt(FALSE)

\* apply(), line 57
Apply_Return ==
    /\ fx_pc = "loop"
    /\ fx_i > Len(findings)
    /\ fx_pc' = "done"
    /\ UNCHANGED <<fx_input, fx_clients, findings, fx_i, attempt, fx_calls,
                   fx_oks, fx_after_ok, fx_last_err, fx_step_errs, applied_fixes, pending_fixes>>
    /\ UNCHANGED nonFxVars

FixNext ==
    \/ Apply_Flatten
    \/ Apply_Skip
    \/ Apply_Pending
    \/ Apply_RunRefused
    \/ Apply_RunBegin
    \/ Run_AttemptOk
    \/ Run_AttemptFails
    \/ Apply_Return

SpecFix == FixInit /\ [][FixNext]_vars

(***************************************************************************)
(* Position bookkeeping: apply() appends one outcome per valid auto-safe   *)
(* finding, in input order, so the outcome of finding k is at the index    *)
(* that counts the valid auto-safe findings up to k.                       *)
(***************************************************************************)
AutoSafe(f) == Get(f, "auto_safe", FALSE)

OutcomeIndex(k) ==
    Cardinality({ j \in 1..k : Valid(findings[j]) /\ AutoSafe(findings[j]) })

Processed(k) ==
    /\ k \in 1..Len(findings)
    /\ k < fx_i

\* C1: a finding whose fix action is "manual_review" never has a fix call
\* issued for it, whatever its auto_safe flag says.
C1_ManualReviewNeverAttempted ==
    \A k \in 1..Len(findings) :
        findings[k].fix.action = "manual_review" => fx_calls[k] = 0

\* C1 witness: an auto-safe finding with action manual_review went through
\* Executor.run (its outcome is recorded) and no call was issued.
C1_Witness ==
    \E k \in 1..Len(findings) :
        /\ Processed(k)
        /\ findings[k].fix.action = "manual_review"
        /\ AutoSafe(findings[k])
        /\ Valid(findings[k])
        /\ fx_clients
        /\ findings[k].service = "s3"
        /\ Len(applied_fixes) >= OutcomeIndex(k)
        /\ fx_calls[k] = 0

\* C2 (as claimed): once apply() has returned, every finding it was handed
\* with auto_safe = false had no fix call and its (resource, issue,
\* fix_instructions, can_auto_fix, fix_type) is in pending_fixes.
C2_ManualFindingsPending ==
    fx_pc = "done" =>
        \A n \in 1..Len(fx_input.items) :
            ~AutoSafe(fx_input.items[n]) =>
                /\ \A k \in 1..Len(findings) :
                        findings[k] = fx_input.items[n] => fx_calls[k] = 0
                /\ \E m \in 1..Len(pending_fixes) :
                        pending_fixes[m] = PendingFix(fx_input.items[n])

\* C9: for every auto-safe finding the fix is tried at most MAX_RETRIES
\* times, no call follows a successful call, and a success is recorded as
\* an outcome with status "applied".
C9_BoundedRetryStopsOnSuccess ==
    /\ ~fx_after_ok
    /\ \A k \in 1..Len(findings) :
        /\ fx_calls[k] <= MAX_RETRIES
        /\ fx_oks[k] <= 1
        /\ fx_calls[k] > 0 => AutoSafe(findings[k])
        /\ fx_oks[k] = 1 =>
                /\ Len(applied_fixes) >= OutcomeIndex(k)
                /\ applied_fixes[OutcomeIndex(k)].status = "applied"

\* C9 witness: a fix that failed MAX_RETRIES - 1 times and then succeeded.
C9_Witness ==
    \E k \in 1..Len(findings) :
        /\ Processed(k)
        /\ fx_calls[k] = MAX_RETRIES
        /\ fx_oks[k] = 1
        /\ applied_fixes[OutcomeIndex(k)].status = "applied"

\* C10 (as claimed): an outcome "failed" is recorded for an auto-safe
\* finding exactly when MAX_RETRIES attempts were made and all failed, and
\* the outcome carries the error of the last attempt.
C10_FailedIffRetriesExhausted ==
    \A k \in 1..Len(findings) :
        (Processed(k) /\ Valid(findings[k]) /\ AutoSafe(findings[k])) =>
            LET out == applied_fixes[OutcomeIndex(k)]
            IN  /\ out.status = "failed" <=>
                        (fx_calls[k] = MAX_RETRIES /\ fx_oks[k] = 0)
                /\ out.status = "failed" =>
                        /\ "last_error" \in DOMAIN out
                        /\ out.last_error = <<k, fx_calls[k]>>

\* C11 (as claimed): when a fix call in which a sub-step raised still
\* succeeded through another sub-step, the outcome recorded for the finding
\* has status "applied" and carries the failing sub-step's error.
C11_PartialFailureAppliedWithError ==
    \A k \in 1..Len(findings) :
        (Processed(k) /\ fx_oks[k] = 1 /\ fx_step_errs[1] = k /\ fx_step_errs[2] # {}) =>
            LET out == applied_fixes[OutcomeIndex(k)]
            IN  /\ out.status = "applied"
                /\ "last_error" \in DOMAIN out

(***************************************************************************)
(*                          INTENT CLASSIFIER                              *)
(*                                                                         *)
(* Strings the classifiers transform are sequences of one-character        *)
(* strings, so that lower(), upper(), strip() and replace() are computed.  *)
(***************************************************************************)
LowerLetters ==
    <<"a", "b", "c", "d", "e", "f", "g", "h", "i", "j", "k", "l", "m",
      "n", "o", "p", "q", "r", "s", "t", "u", "v", "w", "x", "y", "z">>

UpperLetters ==
    <<"A", "B", "C", "D", "E", "F", "G", "H", "I", "J", "K", "L", "M",
      "N", "O", "P", "Q", "R", "S", "T", "U", "V", "W", "X", "Y", "Z">>

LowerChar(c) ==
    IF \E i \in 1..Len(UpperLetters) : UpperLetters[i] = c
    THEN LowerLetters[CHOOSE i \in 1..Len(UpperLetters) : UpperLetters[i] = c]
    ELSE c

UpperChar(c) ==
    IF \E i \in 1..Len(LowerLetters) : LowerLetters[i] = c
    THEN UpperLetters[CHOOSE i \in 1..Len(LowerLetters) : LowerLetters[i] = c]
    ELSE c

\* str.lower()
Lower(str) ==
    [i \in 1..Len(str) |-> LowerChar(str[i])]

\* str.upper()
Upper(str) ==
    [i \in 1..Len(str) |-> UpperChar(str[i])]

\* str.replace(" ", "_")
ReplaceSpaces(str) ==
    [i \in 1..Len(str) |-> IF str[i] = " " THEN "_" ELSE str[i]]

RECURSIVE LStrip(_)
LStrip(str) ==
    IF str # <<>> /\ Head(str) = " " THEN LStrip(Tail(str)) ELSE str

RECURSIVE RStrip(_)
RStrip(str) ==
    IF str # <<>> /\ str[Len(str)] = " "
    THEN RStrip(SubSeq(str, 1, Len(str) - 1))
    ELSE str

\* str.strip()
Strip(str) ==
    RStrip(LStrip(str))

\* "if user_intent:" -- None and the empty string are both falsy; the
\* absent label is the empty sequence.
NoLabel == <<>>

LabelGiven(label) ==
    label # NoLabel

\* s3_agent/intent_detector.py _parse_user_intent: intent_mapping.get(key, UNKNOWN)
S3_intent_mapping(key) ==
    CASE key = <<"w", "e", "b", "s", "i", "t", "e">> -> "website_hosting"
      [] key = <<"w", "e", "b", "s", "i", "t", "e", " ", "h", "o", "s", "t", "i", "n", "g">> -> "website_hosting"
      [] key = <<"s", "t", "a", "t", "i", "c", " ", "w", "e", "b", "s", "i", "t", "e">> -> "website_hosting"
      [] key = <<"h", "o", "s", "t", "i", "n", "g">> -> "website_hosting"
      [] key = <<"s", "t", "o", "r", "a", "g", "e">> -> "data_storage"
      [] key = <<"d", "a", "t", "a", " ", "s", "t", "o", "r", "a", "g", "e">> -> "data_storage"
      [] key = <<"a", "r", "c", "h", "i", "v", "e">> -> "data_archival"
      [] key = <<"a", "r", "c", "h", "i", "v", "a", "l">> -> "data_archival"
      [] key = <<"b", "a", "c", "k", "u", "p">> -> "backup_storage"
      [] key = <<"l", "o", "g", "s">> -> "log_storage"
      [] key = <<"l", "o", "g", "g", "i", "n", "g">> -> "log_storage"
      [] key = <<"c", "d", "n">> -> "cdn_origin"
      [] key = <<"d", "a", "t", "a", " ", "l", "a", "k", "e">> -> "data_lake"
      [] key = <<"a", "n", "a", "l", "y", "t", "i", "c", "s">> -> "data_lake"
      [] OTHER -> "unknown"

S3_parse_user_intent(user_intent) ==
    S3_intent_mapping(Strip(Lower(user_intent)))

\* ec2_agent/intent_detector.py _parse_user_intent: intent_mapping.get(key, UNKNOWN)
EC2_intent_mapping(key) ==
    CASE key = <<"w", "e", "b">> -> "web_server"
      [] key = <<"w", "e", "b", " ", "s", "e", "r", "v", "e", "r">> -> "web_server"
      [] key = <<"w", "e", "b", "s", "i", "t", "e">> -> "web_server"
      [] key = <<"f", "r", "o", "n", "t", "e", "n", "d">> -> "web_server"
      [] key = <<"d", "a", "t", "a", "b", "a", "s", "e">> -> "database_server"
      [] key = <<"d", "b">> -> "database_server"
      [] key = <<"d", "a", "t", "a", "b", "a", "s", "e", " ", "s", "e", "r", "v", "e", "r">> -> "database_server"
      [] key = <<"a", "p", "p", "l", "i", "c", "a", "t", "i", "o", "n">> -> "application_server"
      [] key = <<"a", "p", "p", " ", "s", "e", "r", "v", "e", "r">> -> "application_server"
      [] key = <<"b", "a", "c", "k", "e", "n", "d">> -> "application_server"
      [] key = <<"a", "p", "i">> -> "application_server"
      [] key = <<"d", "e", "v", "e", "l", "o", "p", "m", "e", "n", "t">> -> "development_testing"
      [] key = <<"d", "e", "v">> -> "development_testing"
      [] key = <<"t", "e", "s", "t", "i", "n", "g">> -> "development_testing"
      [] key = <<"s", "t", "a", "g", "i", "n", "g">> -> "development_testing"
      [] key = <<"b", "a", "t", "c", "h">> -> "batch_processing"
      [] key = <<"w", "o", "r", "k", "e", "r">> -> "batch_processing"
      [] key = <<"p", "r", "o", "c", "e", "s", "s", "i", "n", "g">> -> "batch_processing"
      [] key = <<"h", "p", "c">> -> "high_performance_computing"
      [] key = <<"c", "l", "u", "s", "t", "e", "r">> -> "high_performance_computing"
      [] key = <<"g", "p", "u">> -> "high_performance_computing"
      [] key = <<"b", "a", "s", "t", "i", "o", "n">> -> "bastion_host"
      [] key = <<"j", "u", "m", "p", " ", "b", "o", "x">> -> "bastion_host"
      [] key = <<"g", "a", "t", "e", "w", "a", "y">> -> "bastion_host"
      [] key = <<"l", "o", "a", "d", " ", "b", "a", "l", "a", "n", "c", "e", "r">> -> "load_balancer"
      [] key = <<"m", "i", "c", "r", "o", "s", "e", "r", "v", "i", "c", "e">> -> "microservices"
      [] key = <<"d", "a", "t", "a", " ", "p", "r", "o", "c", "e", "s", "s", "i", "n", "g">> -> "data_processing"
      [] key = <<"b", "a", "c", "k", "u", "p">> -> "backup_disaster_recovery"
      [] OTHER -> "unknown"

EC2_parse_user_intent(user_intent) ==
    EC2_intent_mapping(Strip(Lower(user_intent)))

\* iam_agent/intent_detector.py _parse_user_intent: intent_mapping.get(key, UNKNOWN)
IAM_intent_mapping(key) ==
    CASE key = <<"l", "e", "a", "s", "t", " ", "p", "r", "i", "v", "i", "l", "e", "g", "e">> -> "least_privilege"
      [] key = <<"l", "e", "a", "s", "t", "_", "p", "r", "i", "v", "i", "l", "e", "g", "e">> -> "least_privilege"
      [] key = <<"m", "i", "n", "i", "m", "a", "l">> -> "least_privilege"
      [] key = <<"s", "e", "c", "u", "r", "i", "t", "y">> -> "strong_security"
      [] key = <<"s", "t", "r", "o", "n", "g", " ", "s", "e", "c", "u", "r", "i", "t", "y">> -> "strong_security"
      [] key = <<"s", "e", "c", "u", "r", "e">> -> "strong_security"
      [] key = <<"s", "e", "r", "v", "i", "c", "e">> -> "service_account"
      [] key = <<"s", "e", "r", "v", "i", "c", "e", " ", "a", "c", "c", "o", "u", "n", "t">> -> "service_account"
      [] key = <<"a", "p", "p", "l", "i", "c", "a", "t", "i", "o", "n">> -> "service_account"
      [] key = <<"d", "e", "v", "e", "l", "o", "p", "e", "r">> -> "developer_flexibility"
      [] key = <<"d", "e", "v", "e", "l", "o", "p", "m", "e", "n", "t">> -> "developer_flexibility"
      [] key = <<"d", "e", "v">> -> "developer_flexibility"
      [] key = <<"c", "o", "m", "p", "l", "i", "a", "n", "c", "e">> -> "compliance"
      [] key = <<"a", "u", "d", "i", "t">> -> "compliance"
      [] key = <<"a", "d", "m", "i", "n">> -> "admin_access"
      [] key = <<"a", "d", "m", "i", "n", "i", "s", "t", "r", "a", "t", "o", "r">> -> "admin_access"
      [] key = <<"o", "p", "e", "r", "a", "t", "i", "o", "n", "a", "l">> -> "operational_efficiency"
      [] key = <<"o", "p", "e", "r", "a", "t", "i", "o", "n", "s">> -> "operational_efficiency"
      [] key = <<"a", "u", "t", "o", "m", "a", "t", "i", "o", "n">> -> "automation_role"
      [] key = <<"d", "e", "p", "l", "o", "y">> -> "automation_role"
      [] key = <<"d", "e", "p", "l", "o", "y", "m", "e", "n", "t">> -> "automation_role"
      [] OTHER -> "unknown"

IAM_parse_user_intent(user_intent) ==
    IAM_intent_mapping(Strip(Lower(user_intent)))

\* lambda_agents/intent_detector.py: LambdaIntent[name]; "KeyError" when the
\* name is not a member of the enum.
LambdaIntent_by_name(key) ==
    CASE key = <<"A", "P", "I", "_", "E", "N", "D", "P", "O", "I", "N", "T">> -> "api_endpoint"
      [] key = <<"S", "C", "H", "E", "D", "U", "L", "E", "D", "_", "T", "A", "S", "K">> -> "scheduled_task"
      [] key = <<"E", "V", "E", "N", "T", "_", "P", "R", "O", "C", "E", "S", "S", "O", "R">> -> "event_processor"
      [] key = <<"D", "A", "T", "A", "_", "T", "R", "A", "N", "S", "F", "O", "R", "M", "A", "T", "I", "O", "N">> -> "data_transformation"
      [] key = <<"S", "T", "R", "E", "A", "M", "_", "P", "R", "O", "C", "E", "S", "S", "O", "R">> -> "stream_processor"
      [] key = <<"N", "O", "T", "I", "F", "I", "C", "A", "T", "I", "O", "N", "_", "H", "A", "N", "D", "L", "E", "R">> -> "notification_handler"
      [] key = <<"A", "S", "Y", "N", "C", "_", "T", "A", "S", "K">> -> "async_task"
      [] key = <<"W", "E", "B", "H", "O", "O", "K", "_", "H", "A", "N", "D", "L", "E", "R">> -> "webhook_handler"
      [] key = <<"B", "A", "T", "C", "H", "_", "P", "R", "O", "C", "E", "S", "S", "I", "N", "G">> -> "batch_processing"
      [] key = <<"C", "R", "O", "N", "_", "J", "O", "B">> -> "cron_job"
      [] key = <<"U", "N", "K", "N", "O", "W", "N">> -> "unknown"
      [] OTHER -> "KeyError"

\* LambdaIntent[user_intent.upper().replace(" ", "_")]
Lambda_parse_user_intent(user_intent) ==
    LambdaIntent_by_name(ReplaceSpaces(Upper(user_intent)))

\* Labels a caller supplies per resource type (the empty one: none
\* supplied).
Labels ==
    [ s3 |->
      { <<>>,
      <<"c", "d", "n">>,
      <<" ", "C", "D", "N", " ">>,
      <<"L", "o", "g", "s">>,
      <<"s", "t", "o", "r", "a", "g", "e">>,
      <<"w", "e", "b", "s", "i", "t", "e">>,
      <<"w", "e", "b">>,
      <<"c", " ", "d", "n">> },
      ec2 |->
      { <<>>,
      <<"w", "e", "b">>,
      <<" ", "D", "B", " ">>,
      <<"d", "e", "v">>,
      <<"B", "a", "s", "t", "i", "o", "n">>,
      <<"c", "d", "n">>,
      <<"d", " ", "b">> },
      iam |->
      { <<>>,
      <<"d", "e", "v">>,
      <<" ", "A", "d", "m", "i", "n">>,
      <<"s", "e", "r", "v", "i", "c", "e">>,
      <<"a", "u", "d", "i", "t">>,
      <<"w", "e", "b">> },
      lambda |->
      { <<>>,
      <<"c", "r", "o", "n", " ", "j", "o", "b">>,
      <<"C", "r", "o", "n", "_", "J", "o", "b">>,
      <<" ", "c", "r", "o", "n", " ", "j", "o", "b">>,
      <<"a", "p", "i", " ", "e", "n", "d", "p", "o", "i", "n", "t">>,
      <<"u", "n", "k", "n", "o", "w", "n">>,
      <<"c", "r", "o", "n">> } ]

\* "sub in str"
Contains(str, sub) ==
    \E i \in 1..(Len(str) - Len(sub) + 1) :
        SubSeq(str, i, i + Len(sub) - 1) = sub

\* any(indicator in str for indicator in indicators)
AnyIn(indicators, str) ==
    \E i \in 1..Len(indicators) : Contains(str, indicators[i])

\* sum(1 for ind in indicators if ind in str)
CountIn(indicators, str) ==
    Cardinality({ i \in 1..Len(indicators) : Contains(str, indicators[i]) })

Min(a, b) ==
    IF a <= b THEN a ELSE b

(***************************************************************************)
(* _auto_detect_intent, common to S3, EC2 and IAM: a signal <<intent,      *)
(* confidence>> is kept when its confidence is above 0.5; the kept         *)
(* confidences are added per intent in a dict; the intent with the largest *)
(* total wins (the first inserted on a tie); the total is divided by the   *)
(* service's constant and clamped to 1.0.                                  *)
(***************************************************************************)
KeptSignals(signals) ==
    SelectSeq(signals, LAMBDA sg : sg[2] > 50)

RECURSIVE TotalFor(_, _)
TotalFor(kept, intent) ==
    IF kept = <<>> THEN 0
    ELSE (IF Head(kept)[1] = intent THEN Head(kept)[2] ELSE 0)
         + TotalFor(Tail(kept), intent)

\* max(confidence_scores.items(), key=lambda x: x[1])
BestSignal(kept) ==
    CHOOSE i \in 1..Len(kept) :
        /\ \A j \in 1..Len(kept) :
                TotalFor(kept, kept[j][1]) <= TotalFor(kept, kept[i][1])
        /\ \A j \in 1..(i - 1) :
                TotalFor(kept, kept[j][1]) < TotalFor(kept, kept[i][1])

\* min(total_confidence / divisor, 1.0); totals are hundredths, the divisor
\* is given in tenths (20 for 2.0, 25 for 2.5).
NormalizedConfidence(total, divisorTenths) ==
    Min((total * 10) \div divisorTenths, 100)

AutoDetect(signals, divisorTenths, default) ==
    LET kept == KeptSignals(signals)
    IN  IF kept # <<>>
        THEN LET best == kept[BestSignal(kept)][1]
             IN  <<best, NormalizedConfidence(TotalFor(kept, best), divisorTenths), "auto">>
        ELSE default

(***************************************************************************)
(* S3: s3_agent/intent_detector.py                                         *)
(***************************************************************************)
\* Keyword lists of s3_agent/intent_detector.py (indicator lists of
\* __init__ and the lists inside the analyses).
S3_keywords ==
    [ name_website |->
      << <<"w", "e", "b", "s", "i", "t", "e">>,
      <<"w", "w", "w">>,
      <<"s", "i", "t", "e">>,
      <<"w", "e", "b">>,
      <<"f", "r", "o", "n", "t", "e", "n", "d">> >>,
      archival |->
      << <<"a", "r", "c", "h", "i", "v", "e">>,
      <<"b", "a", "c", "k", "u", "p">>,
      <<"o", "l", "d">>,
      <<"h", "i", "s", "t", "o", "r", "i", "c", "a", "l">>,
      <<"r", "e", "t", "e", "n", "t", "i", "o", "n">> >>,
      log |->
      << <<"l", "o", "g">>,
      <<"l", "o", "g", "s">>,
      <<"a", "u", "d", "i", "t">>,
      <<"a", "c", "c", "e", "s", "s">>,
      <<"c", "l", "o", "u", "d", "t", "r", "a", "i", "l">>,
      <<"v", "p", "c", "-", "f", "l", "o", "w">> >>,
      data_lake |->
      << <<"d", "a", "t", "a", "l", "a", "k", "e">>,
      <<"d", "a", "t", "a", "-", "l", "a", "k", "e">>,
      <<"a", "n", "a", "l", "y", "t", "i", "c", "s">>,
      <<"e", "t", "l">>,
      <<"r", "a", "w", "-", "d", "a", "t", "a">>,
      <<"p", "r", "o", "c", "e", "s", "s", "e", "d">> >>,
      desc_website |->
      << <<"w", "e", "b", "s", "i", "t", "e">>,
      <<"w", "e", "b">>,
      <<"h", "t", "m", "l">>,
      <<"h", "o", "s", "t", "i", "n", "g">>,
      <<"f", "r", "o", "n", "t", "e", "n", "d">>,
      <<"s", "t", "a", "t", "i", "c", " ", "s", "i", "t", "e">>,
      <<"b", "l", "o", "g">> >>,
      desc_storage |->
      << <<"s", "t", "o", "r", "e">>,
      <<"s", "t", "o", "r", "a", "g", "e">>,
      <<"d", "a", "t", "a">>,
      <<"f", "i", "l", "e", "s">>,
      <<"d", "o", "c", "u", "m", "e", "n", "t", "s">>,
      <<"u", "p", "l", "o", "a", "d", "s">> >>,
      desc_archive |->
      << <<"a", "r", "c", "h", "i", "v", "e">>,
      <<"o", "l", "d">>,
      <<"b", "a", "c", "k", "u", "p">>,
      <<"r", "e", "t", "e", "n", "t", "i", "o", "n">>,
      <<"c", "o", "m", "p", "l", "i", "a", "n", "c", "e">> >>,
      desc_log |->
      << <<"l", "o", "g">>,
      <<"a", "u", "d", "i", "t">>,
      <<"m", "o", "n", "i", "t", "o", "r", "i", "n", "g">>,
      <<"t", "r", "a", "c", "k", "i", "n", "g">> >> ]

\* _analyze_bucket_name
S3_analyze_bucket_name(bucket_name) ==
    LET name_lower == Lower(bucket_name)
    IN  IF AnyIn(S3_keywords.name_website, name_lower) THEN <<"website_hosting", 70>>
        ELSE IF AnyIn(S3_keywords.archival, name_lower) THEN <<"data_archival", 60>>
        ELSE IF AnyIn(S3_keywords.log, name_lower) THEN <<"log_storage", 60>>
        ELSE IF AnyIn(S3_keywords.data_lake, name_lower) THEN <<"data_lake", 60>>
        ELSE <<"unknown", 0>>

\* _check_website_config: get_bucket_website succeeds iff the bucket has a
\* website configuration.
S3_check_website_config(bucket) ==
    IF bucket.website THEN <<"website_hosting", 90>> ELSE <<"unknown", 0>>

\* _analyze_bucket_contents; bucket.objects summarises list_objects_v2:
\* "error" (the call raises), "empty", "website_file" (a key holds a website
\* indicator), "web_majority", "log_majority", "mixed".
S3_analyze_bucket_contents(bucket) ==
    CASE bucket.objects = "error" -> <<"data_storage", 40>>
      [] bucket.objects = "empty" -> <<"unknown", 0>>
      [] bucket.objects = "website_file" -> <<"website_hosting", 80>>
      [] bucket.objects = "web_majority" -> <<"website_hosting", 70>>
      [] bucket.objects = "log_majority" -> <<"log_storage", 60>>
      [] OTHER -> <<"data_storage", 50>>

\* _analyze_storage_classes; bucket.storage is "archival" (more than half
\* GLACIER / DEEP_ARCHIVE), "standard" (more than 80% STANDARD) or "mixed".
S3_analyze_storage_classes(bucket) ==
    CASE bucket.objects \in {"error", "empty"} -> <<"unknown", 0>>
      [] bucket.storage = "archival" -> <<"data_archival", 70>>
      [] bucket.storage = "standard" -> <<"data_storage", 40>>
      [] OTHER -> <<"unknown", 20>>

\* _auto_detect_intent
S3_auto_detect_intent(bucket) ==
    AutoDetect(<<S3_analyze_bucket_name(bucket.name),
                 S3_check_website_config(bucket),
                 S3_analyze_bucket_contents(bucket),
                 S3_analyze_storage_classes(bucket)>>,
               20, <<"data_storage", 30, "default">>)

\* _analyze_user_description
S3_analyze_user_description(description) ==
    LET description_lower == Lower(description)
    IN  IF AnyIn(S3_keywords.desc_website, description_lower) THEN <<"website_hosting", 90, "description">>
        ELSE IF AnyIn(S3_keywords.desc_storage, description_lower) THEN <<"data_storage", 80, "description">>
        ELSE IF AnyIn(S3_keywords.desc_archive, description_lower) THEN <<"data_archival", 80, "description">>
        ELSE IF AnyIn(S3_keywords.desc_log, description_lower) THEN <<"log_storage", 80, "description">>
        ELSE <<"unknown", 30, "description">>

\* detect_intent: explicit label, then description (accepted above 0.7),
\* then automatic detection.  Result: <<intent, confidence, reasoning>>.
S3_detect_intentMutDescriptionFirst(bucket, user_intent, user_description) ==
    IF LabelGiven(user_description)
       /\ S3_analyze_user_description(user_description)[2] > 70
    THEN S3_analyze_user_description(user_description)
    ELSE IF LabelGiven(user_intent) /\ S3_parse_user_intent(user_intent) # "unknown"
    THEN <<S3_parse_user_intent(user_intent), 100, "explicit">>
    ELSE S3_auto_detect_intent(bucket)

S3_detect_intent(bucket, user_intent, user_description) ==
    IF LabelGiven(user_intent) /\ S3_parse_user_intent(user_intent) # "unknown"
    THEN <<S3_parse_user_intent(user_intent), 100, "explicit">>
    ELSE IF LabelGiven(user_description)
            /\ S3_analyze_user_description(user_description)[2] > 70
    THEN S3_analyze_user_description(user_description)
    ELSE S3_auto_detect_intent(bucket)

\* Bucket names of the model.
S3BucketNames ==
    { <<"M", "y", "-", "W", "e", "b", "s", "i", "t", "e">>,
       <<"o", "l", "d", "-", "l", "o", "g", "s">>,
       <<"a", "u", "d", "i", "t">>,
       <<"e", "t", "l">>,
       <<"d", "a", "t", "a">> }

S3Buckets ==
    { b \in [name : S3BucketNames, website : BOOLEAN, pab_blocked : BOOLEAN,
             objects : {"error", "empty", "website_file", "web_majority",
                        "log_majority", "mixed"},
             storage : {"archival", "standard"}] :
        b.objects \in {"error", "empty"} => b.storage = "standard" }

\* Descriptions of the model (NoLabel: none supplied).
S3Descriptions ==
    { <<>>,
       <<"M", "y", " ", "B", "l", "o", "g">>,
       <<"o", "l", "d", " ", "f", "i", "l", "e", "s">>,
       <<"m", "i", "s", "c">> }

(***************************************************************************)
(* EC2: ec2_agent/intent_detector.py                                       *)
(***************************************************************************)
\* Keyword and instance-type lists of ec2_agent/intent_detector.py and
\* ec2_agent/rules/intent_conversion_rule.py.
EC2_keywords ==
    [ web_server |->
      << <<"w", "e", "b">>,
      <<"h", "t", "t", "p">>,
      <<"h", "t", "t", "p", "s">>,
      <<"n", "g", "i", "n", "x">>,
      <<"a", "p", "a", "c", "h", "e">>,
      <<"f", "r", "o", "n", "t", "e", "n", "d">>,
      <<"w", "w", "w">>,
      <<"s", "i", "t", "e">> >>,
      database |->
      << <<"d", "b">>,
      <<"d", "a", "t", "a", "b", "a", "s", "e">>,
      <<"m", "y", "s", "q", "l">>,
      <<"p", "o", "s", "t", "g", "r", "e", "s">>,
      <<"o", "r", "a", "c", "l", "e">>,
      <<"m", "o", "n", "g", "o", "d", "b">>,
      <<"r", "e", "d", "i", "s">>,
      <<"s", "q", "l">>,
      <<"n", "o", "s", "q", "l">>,
      <<"r", "d", "s">>,
      <<"a", "u", "r", "o", "r", "a">> >>,
      app_server |->
      << <<"a", "p", "p">>,
      <<"a", "p", "p", "l", "i", "c", "a", "t", "i", "o", "n">>,
      <<"a", "p", "i">>,
      <<"b", "a", "c", "k", "e", "n", "d">>,
      <<"s", "e", "r", "v", "i", "c", "e">>,
      <<"m", "i", "c", "r", "o", "s", "e", "r", "v", "i", "c", "e">>,
      <<"j", "a", "v", "a">>,
      <<"s", "p", "r", "i", "n", "g">>,
      <<"n", "o", "d", "e">>,
      <<"p", "y", "t", "h", "o", "n">>,
      <<"d", "j", "a", "n", "g", "o">>,
      <<"f", "l", "a", "s", "k">> >>,
      dev_test |->
      << <<"d", "e", "v">>,
      <<"d", "e", "v", "e", "l", "o", "p", "m", "e", "n", "t">>,
      <<"t", "e", "s", "t">>,
      <<"t", "e", "s", "t", "i", "n", "g">>,
      <<"s", "t", "a", "g", "i", "n", "g">>,
      <<"q", "a">>,
      <<"s", "a", "n", "d", "b", "o", "x">>,
      <<"e", "x", "p", "e", "r", "i", "m", "e", "n", "t">>,
      <<"t", "r", "i", "a", "l">>,
      <<"d", "e", "m", "o">> >>,
      bastion |->
      << <<"b", "a", "s", "t", "i", "o", "n">>,
      <<"j", "u", "m", "p", "b", "o", "x">>,
      <<"j", "u", "m", "p">>,
      <<"g", "a", "t", "e", "w", "a", "y">>,
      <<"p", "r", "o", "x", "y">>,
      <<"s", "s", "h">>,
      <<"v", "p", "n">> >>,
      env_dev |->
      { <<"d", "e", "v">>,
      <<"d", "e", "v", "e", "l", "o", "p", "m", "e", "n", "t">>,
      <<"t", "e", "s", "t">>,
      <<"t", "e", "s", "t", "i", "n", "g">>,
      <<"s", "t", "a", "g", "i", "n", "g">> },
      gpu_types |->
      << <<"p", "3">>,
      <<"p", "4">>,
      <<"g", "3">>,
      <<"g", "4">> >>,
      mem_types |->
      << <<"r", "5">>,
      <<"r", "6">>,
      <<"x", "1">>,
      <<"z", "1">> >>,
      compute_types |->
      << <<"c", "5">>,
      <<"c", "6">> >>,
      burst_types |->
      << <<"t", "2">>,
      <<"t", "3">>,
      <<"t", "4">> >>,
      desc_web |->
      << <<"w", "e", "b">>,
      <<"w", "e", "b", "s", "i", "t", "e">>,
      <<"h", "t", "t", "p">>,
      <<"h", "t", "m", "l">>,
      <<"f", "r", "o", "n", "t", "e", "n", "d">>,
      <<"n", "g", "i", "n", "x">>,
      <<"a", "p", "a", "c", "h", "e">> >>,
      desc_db |->
      << <<"d", "a", "t", "a", "b", "a", "s", "e">>,
      <<"m", "y", "s", "q", "l">>,
      <<"p", "o", "s", "t", "g", "r", "e", "s">>,
      <<"m", "o", "n", "g", "o">>,
      <<"r", "e", "d", "i", "s">>,
      <<"s", "q", "l">> >>,
      desc_app |->
      << <<"a", "p", "p", "l", "i", "c", "a", "t", "i", "o", "n">>,
      <<"a", "p", "i">>,
      <<"b", "a", "c", "k", "e", "n", "d">>,
      <<"s", "e", "r", "v", "i", "c", "e">>,
      <<"m", "i", "c", "r", "o", "s", "e", "r", "v", "i", "c", "e">> >>,
      desc_dev |->
      << <<"d", "e", "v", "e", "l", "o", "p", "m", "e", "n", "t">>,
      <<"t", "e", "s", "t", "i", "n", "g">>,
      <<"d", "e", "v">>,
      <<"q", "a">>,
      <<"s", "t", "a", "g", "i", "n", "g">>,
      <<"s", "a", "n", "d", "b", "o", "x">> >>,
      desc_batch |->
      << <<"b", "a", "t", "c", "h">>,
      <<"w", "o", "r", "k", "e", "r">>,
      <<"j", "o", "b">>,
      <<"q", "u", "e", "u", "e">>,
      <<"p", "r", "o", "c", "e", "s", "s", "i", "n", "g">>,
      <<"e", "t", "l">> >>,
      desc_hpc |->
      << <<"h", "p", "c">>,
      <<"c", "l", "u", "s", "t", "e", "r">>,
      <<"g", "p", "u">>,
      <<"m", "l">>,
      <<"a", "i">>,
      <<"t", "r", "a", "i", "n", "i", "n", "g">>,
      <<"c", "o", "m", "p", "u", "t", "e">> >>,
      db_instance_types |->
      << <<"r", "5">>,
      <<"r", "6">>,
      <<"r", "4">>,
      <<"m", "5">>,
      <<"m", "6", "i">> >>,
      expensive_types |->
      << <<"p", "3">>,
      <<"p", "4">>,
      <<"x", "1">>,
      <<"r", "5", ".", "l", "a", "r", "g", "e">>,
      <<"r", "5", ".", "x", "l", "a", "r", "g", "e">>,
      <<"m", "5", ".", "l", "a", "r", "g", "e">>,
      <<"m", "5", ".", "x", "l", "a", "r", "g", "e">> >> ]

\* _analyze_instance_tags; the tag values are lowercased when the dict of
\* tags is built.
EC2_analyze_instance_tags(instance) ==
    LET name == Lower(instance.name_tag)
        env == Lower(instance.env_tag)
        role == Lower(instance.role_tag)
    IN  IF name # <<>> /\ AnyIn(EC2_keywords.web_server, name) THEN <<"web_server", 80>>
        ELSE IF name # <<>> /\ AnyIn(EC2_keywords.database, name) THEN <<"database_server", 80>>
        ELSE IF name # <<>> /\ AnyIn(EC2_keywords.app_server, name) THEN <<"application_server", 70>>
        ELSE IF name # <<>> /\ AnyIn(EC2_keywords.dev_test, name) THEN <<"development_testing", 70>>
        ELSE IF name # <<>> /\ AnyIn(EC2_keywords.bastion, name) THEN <<"bastion_host", 90>>
        ELSE IF env \in EC2_keywords.env_dev THEN <<"development_testing", 60>>
        ELSE IF role # <<>> /\ EC2_parse_user_intent(role) # "unknown"
        THEN <<EC2_parse_user_intent(role), 70>>
        ELSE <<"unknown", 0>>

\* _analyze_instance_type
EC2_analyze_instance_type(instance) ==
    IF AnyIn(EC2_keywords.gpu_types, instance.instance_type) THEN <<"high_performance_computing", 70>>
    ELSE IF AnyIn(EC2_keywords.mem_types, instance.instance_type) THEN <<"database_server", 50>>
    ELSE IF AnyIn(EC2_keywords.compute_types, instance.instance_type) THEN <<"batch_processing", 40>>
    ELSE IF AnyIn(EC2_keywords.burst_types, instance.instance_type) THEN <<"development_testing", 30>>
    ELSE <<"unknown", 0>>

\* _analyze_security_groups; instance.ports is the set of FromPort values of
\* the attached groups' rules, instance.has_sg says whether a group is
\* attached.
EC2_analyze_security_groups(instance) ==
    IF ~instance.has_sg THEN <<"unknown", 0>>
    ELSE IF {80, 443, 8080, 8443} \cap instance.ports # {} THEN <<"web_server", 80>>
    ELSE IF {3306, 5432, 1521, 27017, 6379} \cap instance.ports # {} THEN <<"database_server", 80>>
    ELSE IF instance.ports = {22} THEN <<"bastion_host", 70>>
    ELSE IF { port \in instance.ports : port > 8000 } # {} THEN <<"application_server", 50>>
    ELSE <<"unknown", 20>>

\* _analyze_network_config (every instance of the model has a private IP)
EC2_analyze_network_config(instance) ==
    IF instance.public_ip THEN <<"web_server", 40>>
    ELSE <<"application_server", 30>>

\* _analyze_storage_config; instance.ebs_gb is the total size of the volumes
EC2_analyze_storage_config(instance) ==
    IF instance.ebs_gb = 0 THEN <<"unknown", 0>>
    ELSE IF instance.ebs_gb > 500 THEN <<"database_server", 50>>
    ELSE IF instance.ebs_gb > 100 THEN <<"data_processing", 40>>
    ELSE <<"unknown", 10>>

\* _auto_detect_intent; instance.described is FALSE when describe_instances
\* raises or returns no reservation.
EC2_auto_detect_intent(instance) ==
    IF ~instance.described THEN <<"unknown", 0, "error">>
    ELSE AutoDetect(<<EC2_analyze_instance_tags(instance),
                      EC2_analyze_instance_type(instance),
                      EC2_analyze_security_groups(instance),
                      EC2_analyze_network_config(instance),
                      EC2_analyze_storage_config(instance)>>,
                    25,
                    IF instance.state = "stopped"
                    THEN <<"development_testing", 40, "default">>
                    ELSE <<"application_server", 30, "default">>)

\* _analyze_user_description
EC2_analyze_user_description(description) ==
    LET description_lower == Lower(description)
    IN  IF AnyIn(EC2_keywords.desc_web, description_lower) THEN <<"web_server", 90, "description">>
        ELSE IF AnyIn(EC2_keywords.desc_db, description_lower) THEN <<"database_server", 90, "description">>
        ELSE IF AnyIn(EC2_keywords.desc_app, description_lower) THEN <<"application_server", 80, "description">>
        ELSE IF AnyIn(EC2_keywords.desc_dev, description_lower) THEN <<"development_testing", 80, "description">>
        ELSE IF AnyIn(EC2_keywords.desc_batch, description_lower) THEN <<"batch_processing", 80, "description">>
        ELSE IF AnyIn(EC2_keywords.desc_hpc, description_lower) THEN <<"high_performance_computing", 80, "description">>
        ELSE <<"unknown", 30, "description">>

\* detect_intent
EC2_detect_intent(instance, user_intent, user_description) ==
    IF LabelGiven(user_intent) /\ EC2_parse_user_intent(user_intent) # "unknown"
    THEN <<EC2_parse_user_intent(user_intent), 100, "explicit">>
    ELSE IF LabelGiven(user_description)
            /\ EC2_analyze_user_description(user_description)[2] > 70
    THEN EC2_analyze_user_description(user_description)
    ELSE EC2_auto_detect_intent(instance)

\* Tag values, instance types and open ports of the model's instances.
EC2Tags ==
    [ name |->
      { <<>>,
      <<"W", "e", "b", "-", "1">>,
      <<"b", "a", "s", "t", "i", "o", "n">> },
      role |->
      { <<>>,
      <<"G", "P", "U">> },
      env |->
      { <<>>,
      <<"D", "e", "v">> },
      instance_type |->
      { <<"g", "4", "d", "n", ".", "x", "l", "a", "r", "g", "e">>,
      <<"t", "3", ".", "m", "i", "c", "r", "o">> },
      ports |->
      { {}, {22}, {22, 443}, {5432} } ]

EC2Instances ==
    { i \in [described : BOOLEAN, name_tag : EC2Tags.name, env_tag : EC2Tags.env,
             role_tag : EC2Tags.role, instance_type : EC2Tags.instance_type,
             has_sg : BOOLEAN, ports : EC2Tags.ports, ssh_open_to_world : BOOLEAN,
             public_ip : BOOLEAN, ebs_gb : {600}, state : {"running", "stopped"}] :
        /\ ~i.has_sg => i.ports = {}
        /\ i.has_sg => i.ports # {}
        /\ i.ssh_open_to_world => 22 \in i.ports
        /\ i.env_tag # <<>> => i.name_tag = <<>>
        /\ i.role_tag # <<>> => (i.name_tag = <<>> /\ i.env_tag = <<>>)
        /\ ~i.described =>
              /\ i.name_tag = <<>> /\ i.env_tag = <<>> /\ i.role_tag = <<>>
              /\ i.instance_type = <<"t", "3", ".", "m", "i", "c", "r", "o">>
              /\ ~i.has_sg /\ ~i.public_ip /\ i.state = "running" }

EC2Descriptions ==
    { <<>>,
       <<"S", "Q", "L", " ", "b", "o", "x">>,
       <<"m", "i", "s", "c">> }

(***************************************************************************)
(* IAM: iam_agent/intent_detector.py                                       *)
(***************************************************************************)
\* Keyword lists of iam_agent/intent_detector.py.
IAM_keywords ==
    [ service_account |->
      << <<"s", "e", "r", "v", "i", "c", "e">>,
      <<"a", "p", "p">>,
      <<"a", "p", "p", "l", "i", "c", "a", "t", "i", "o", "n">>,
      <<"s", "y", "s", "t", "e", "m">>,
      <<"a", "p", "i">>,
      <<"l", "a", "m", "b", "d", "a">>,
      <<"e", "c", "2">>,
      <<"e", "c", "s">>,
      <<"b", "a", "t", "c", "h">>,
      <<"g", "l", "u", "e">>,
      <<"e", "m", "r">>,
      <<"c", "o", "d", "e", "b", "u", "i", "l", "d">> >>,
      admin |->
      << <<"a", "d", "m", "i", "n">>,
      <<"a", "d", "m", "i", "n", "i", "s", "t", "r", "a", "t", "o", "r">>,
      <<"r", "o", "o", "t">>,
      <<"s", "u", "p", "e", "r", "u", "s", "e", "r">>,
      <<"m", "a", "s", "t", "e", "r">> >>,
      developer |->
      << <<"d", "e", "v">>,
      <<"d", "e", "v", "e", "l", "o", "p", "e", "r">>,
      <<"d", "e", "v", "e", "l", "o", "p", "m", "e", "n", "t">>,
      <<"s", "t", "a", "g", "i", "n", "g">>,
      <<"t", "e", "s", "t">>,
      <<"s", "a", "n", "d", "b", "o", "x">> >>,
      automation |->
      << <<"a", "u", "t", "o", "m", "a", "t", "i", "o", "n">>,
      <<"d", "e", "p", "l", "o", "y">>,
      <<"d", "e", "p", "l", "o", "y", "m", "e", "n", "t">>,
      <<"c", "i">>,
      <<"c", "d">>,
      <<"p", "i", "p", "e", "l", "i", "n", "e">>,
      <<"j", "e", "n", "k", "i", "n", "s">>,
      <<"g", "i", "t", "h", "u", "b">>,
      <<"g", "i", "t", "l", "a", "b">>,
      <<"t", "e", "r", "r", "a", "f", "o", "r", "m">>,
      <<"a", "n", "s", "i", "b", "l", "e">> >>,
      compliance |->
      << <<"a", "u", "d", "i", "t">>,
      <<"c", "o", "m", "p", "l", "i", "a", "n", "c", "e">>,
      <<"s", "e", "c", "u", "r", "i", "t", "y">>,
      <<"r", "e", "a", "d", "o", "n", "l", "y">>,
      <<"m", "o", "n", "i", "t", "o", "r">>,
      <<"l", "o", "g", "g", "i", "n", "g">> >>,
      desc_security |->
      << <<"s", "e", "c", "u", "r", "i", "t", "y">>,
      <<"s", "e", "c", "u", "r", "e">>,
      <<"m", "f", "a">>,
      <<"e", "n", "c", "r", "y", "p", "t", "i", "o", "n">>,
      <<"c", "o", "m", "p", "l", "i", "a", "n", "c", "e">>,
      <<"a", "u", "d", "i", "t">> >>,
      desc_service |->
      << <<"s", "e", "r", "v", "i", "c", "e">>,
      <<"a", "p", "p", "l", "i", "c", "a", "t", "i", "o", "n">>,
      <<"a", "p", "p">>,
      <<"s", "y", "s", "t", "e", "m">>,
      <<"a", "u", "t", "o", "m", "a", "t", "e", "d">>,
      <<"l", "a", "m", "b", "d", "a">>,
      <<"e", "c", "2">> >>,
      desc_dev |->
      << <<"d", "e", "v", "e", "l", "o", "p", "e", "r">>,
      <<"d", "e", "v", "e", "l", "o", "p", "m", "e", "n", "t">>,
      <<"t", "e", "s", "t", "i", "n", "g">>,
      <<"s", "a", "n", "d", "b", "o", "x">>,
      <<"e", "x", "p", "e", "r", "i", "m", "e", "n", "t", "a", "l">> >>,
      desc_admin |->
      << <<"a", "d", "m", "i", "n">>,
      <<"a", "d", "m", "i", "n", "i", "s", "t", "r", "a", "t", "o", "r">>,
      <<"f", "u", "l", "l", " ", "a", "c", "c", "e", "s", "s">>,
      <<"e", "v", "e", "r", "y", "t", "h", "i", "n", "g">>,
      <<"m", "a", "n", "a", "g", "e", " ", "a", "l", "l">> >>,
      desc_compliance |->
      << <<"c", "o", "m", "p", "l", "i", "a", "n", "c", "e">>,
      <<"a", "u", "d", "i", "t">>,
      <<"r", "e", "a", "d", "o", "n", "l", "y">>,
      <<"m", "o", "n", "i", "t", "o", "r">>,
      <<"l", "o", "g", "g", "i", "n", "g">>,
      <<"g", "o", "v", "e", "r", "n", "a", "n", "c", "e">> >>,
      desc_automation |->
      << <<"a", "u", "t", "o", "m", "a", "t", "i", "o", "n">>,
      <<"d", "e", "p", "l", "o", "y">>,
      <<"p", "i", "p", "e", "l", "i", "n", "e">>,
      <<"c", "i", "/", "c", "d">>,
      <<"t", "e", "r", "r", "a", "f", "o", "r", "m">>,
      <<"a", "n", "s", "i", "b", "l", "e">> >> ]

\* _analyze_resource_name
IAM_analyze_resource_name(resource_name) ==
    LET name_lower == Lower(resource_name)
    IN  IF AnyIn(IAM_keywords.service_account, name_lower) THEN <<"service_account", 70>>
        ELSE IF AnyIn(IAM_keywords.admin, name_lower) THEN <<"admin_access", 80>>
        ELSE IF AnyIn(IAM_keywords.developer, name_lower) THEN <<"developer_flexibility", 60>>
        ELSE IF AnyIn(IAM_keywords.automation, name_lower) THEN <<"automation_role", 70>>
        ELSE IF AnyIn(IAM_keywords.compliance, name_lower) THEN <<"compliance", 60>>
        ELSE <<"unknown", 0>>

\* _analyze_attached_policies; resource.policies summarises the attached
\* policies: "error" (the listing raises), "none", "admin", "readonly",
\* "service", "many" (more than three, none of the former), "few".
IAM_analyze_attached_policies(resource) ==
    CASE resource.policies = "error" -> <<"unknown", 0>>
      [] resource.policies = "none" -> <<"least_privilege", 40>>
      [] resource.policies = "admin" -> <<"admin_access", 90>>
      [] resource.policies = "readonly" -> <<"compliance", 70>>
      [] resource.policies = "service" -> <<"service_account", 60>>
      [] resource.policies = "many" -> <<"operational_efficiency", 50>>
      [] OTHER -> <<"least_privilege", 40>>

\* _analyze_trust_policy; resource.trust is "error", "aws_service",
\* "federated" or "standard".
IAM_analyze_trust_policy(resource) ==
    CASE resource.trust = "error" -> <<"unknown", 0>>
      [] resource.trust = "aws_service" -> <<"service_account", 90>>
      [] resource.trust = "federated" -> <<"operational_efficiency", 70>>
      [] OTHER -> <<"service_account", 50>>

\* _analyze_user_access_patterns; resource.access is "error", "console_mfa",
\* "console_nomfa", "keys_only" or "inactive".
IAM_analyze_user_access_patterns(resource) ==
    CASE resource.access = "error" -> <<"unknown", 0>>
      [] resource.access = "console_mfa" -> <<"strong_security", 70>>
      [] resource.access = "console_nomfa" -> <<"developer_flexibility", 60>>
      [] resource.access = "keys_only" -> <<"service_account", 80>>
      [] OTHER -> <<"unknown", 20>>

\* _analyze_policy_content; resource.content is "error", "admin" (wildcards
\* and dangerous actions), "readonly", "many", "few" or "standard".
IAM_analyze_policy_content(resource) ==
    CASE resource.content = "error" -> <<"unknown", 0>>
      [] resource.content = "admin" -> <<"admin_access", 80>>
      [] resource.content = "readonly" -> <<"compliance", 70>>
      [] resource.content = "many" -> <<"operational_efficiency", 60>>
      [] resource.content = "few" -> <<"least_privilege", 70>>
      [] OTHER -> <<"service_account", 40>>

\* _auto_detect_intent: the analyses that apply to the resource type
IAM_signals(resource) ==
    <<IAM_analyze_resource_name(resource.name)>>
    \o (IF resource.resource_type \in {"user", "role"}
        THEN <<IAM_analyze_attached_policies(resource)>> ELSE <<>>)
    \o (IF resource.resource_type = "role"
        THEN <<IAM_analyze_trust_policy(resource)>> ELSE <<>>)
    \o (IF resource.resource_type = "user"
        THEN <<IAM_analyze_user_access_patterns(resource)>> ELSE <<>>)
    \o (IF resource.resource_type = "policy"
        THEN <<IAM_analyze_policy_content(resource)>> ELSE <<>>)

IAM_auto_detect_intent(resource) ==
    AutoDetect(IAM_signals(resource), 20,
               IF resource.resource_type = "role"
               THEN <<"service_account", 30, "default">>
               ELSE IF resource.resource_type = "user"
               THEN <<"developer_flexibility", 30, "default">>
               ELSE <<"least_privilege", 30, "default">>)

\* _analyze_user_description
IAM_analyze_user_description(description) ==
    LET description_lower == Lower(description)
    IN  IF AnyIn(IAM_keywords.desc_security, description_lower) THEN <<"strong_security", 90, "description">>
        ELSE IF AnyIn(IAM_keywords.desc_service, description_lower) THEN <<"service_account", 80, "description">>
        ELSE IF AnyIn(IAM_keywords.desc_dev, description_lower) THEN <<"developer_flexibility", 80, "description">>
        ELSE IF AnyIn(IAM_keywords.desc_admin, description_lower) THEN <<"admin_access", 80, "description">>
        ELSE IF AnyIn(IAM_keywords.desc_compliance, description_lower) THEN <<"compliance", 80, "description">>
        ELSE IF AnyIn(IAM_keywords.desc_automation, description_lower) THEN <<"automation_role", 80, "description">>
        ELSE <<"unknown", 30, "description">>

\* detect_intent
IAM_detect_intent(resource, user_intent, user_description) ==
    IF LabelGiven(user_intent) /\ IAM_parse_user_intent(user_intent) # "unknown"
    THEN <<IAM_parse_user_intent(user_intent), 100, "explicit">>
    ELSE IF LabelGiven(user_description)
            /\ IAM_analyze_user_description(user_description)[2] > 70
    THEN IAM_analyze_user_description(user_description)
    ELSE IAM_auto_detect_intent(resource)

\* Resource names of the model.
IAMNames ==
    { <<"A", "p", "p", "-", "S", "e", "r", "v", "i", "c", "e">>,
       <<"r", "o", "o", "t">>,
       <<"q", "a">> }

IAMResources ==
    { r \in [resource_type : {"user", "role", "policy"}, name : IAMNames,
             policies : {"n/a", "error", "none", "admin", "service"},
             trust : {"n/a", "aws_service", "federated", "standard"},
             access : {"n/a", "console_mfa", "keys_only", "inactive"},
             content : {"n/a", "admin", "few", "standard"}] :
        /\ (r.resource_type \in {"user", "role"}) <=> (r.policies # "n/a")
        /\ (r.resource_type = "role") <=> (r.trust # "n/a")
        /\ (r.resource_type = "user") <=> (r.access # "n/a")
        /\ (r.resource_type = "policy") <=> (r.content # "n/a") }

IAMDescriptions ==
    { <<>>,
       <<"F", "u", "l", "l", " ", "A", "c", "c", "e", "s", "s">>,
       <<"m", "i", "s", "c">> }

(***************************************************************************)
(* Lambda: lambda_agents/intent_detector.py                                *)
(***************************************************************************)
\* Indicator lists of lambda_agents/intent_detector.py.
Lambda_keywords ==
    [ api |->
      << <<"a", "p", "i">>,
      <<"r", "e", "s", "t">>,
      <<"h", "t", "t", "p">>,
      <<"r", "e", "q", "u", "e", "s", "t">>,
      <<"r", "e", "s", "p", "o", "n", "s", "e">>,
      <<"h", "a", "n", "d", "l", "e", "r">>,
      <<"e", "n", "d", "p", "o", "i", "n", "t">>,
      <<"g", "a", "t", "e", "w", "a", "y">>,
      <<"r", "o", "u", "t", "e", "s">>,
      <<"c", "o", "r", "s">>,
      <<"m", "e", "t", "h", "o", "d">> >>,
      scheduled |->
      << <<"s", "c", "h", "e", "d", "u", "l", "e">>,
      <<"c", "r", "o", "n">>,
      <<"t", "i", "m", "e", "r">>,
      <<"p", "e", "r", "i", "o", "d", "i", "c">>,
      <<"j", "o", "b">>,
      <<"b", "a", "t", "c", "h">>,
      <<"e", "v", "e", "n", "t", "b", "r", "i", "d", "g", "e">>,
      <<"c", "l", "o", "u", "d", "w", "a", "t", "c", "h">> >>,
      event_processor |->
      << <<"e", "v", "e", "n", "t">>,
      <<"p", "r", "o", "c", "e", "s", "s">>,
      <<"c", "o", "n", "s", "u", "m", "e">>,
      <<"t", "r", "i", "g", "g", "e", "r">>,
      <<"l", "i", "s", "t", "e", "n", "e", "r">>,
      <<"s", "3">>,
      <<"d", "y", "n", "a", "m", "o", "d", "b">>,
      <<"s", "q", "s">>,
      <<"s", "n", "s">> >>,
      stream_processor |->
      << <<"s", "t", "r", "e", "a", "m">>,
      <<"k", "i", "n", "e", "s", "i", "s">>,
      <<"d", "y", "n", "a", "m", "o", "d", "b", " ", "s", "t", "r", "e", "a", "m", "s">>,
      <<"f", "i", "r", "e", "h", "o", "s", "e">>,
      <<"r", "e", "a", "l", "-", "t", "i", "m", "e">>,
      <<"r", "e", "a", "l", "t", "i", "m", "e">>,
      <<"p", "r", "o", "c", "e", "s", "s", "i", "n", "g">> >>,
      notification |->
      << <<"n", "o", "t", "i", "f", "i", "c", "a", "t", "i", "o", "n">>,
      <<"e", "m", "a", "i", "l">>,
      <<"s", "m", "s">>,
      <<"a", "l", "e", "r", "t">>,
      <<"m", "e", "s", "s", "a", "g", "e">>,
      <<"p", "u", "b", "l", "i", "s", "h">>,
      <<"s", "u", "b", "s", "c", "r", "i", "b", "e">>,
      <<"s", "n", "s">> >>,
      data_transformation |->
      << <<"t", "r", "a", "n", "s", "f", "o", "r", "m">>,
      <<"c", "o", "n", "v", "e", "r", "t">>,
      <<"n", "o", "r", "m", "a", "l", "i", "z", "e">>,
      <<"p", "a", "r", "s", "e">>,
      <<"e", "t", "l">>,
      <<"d", "a", "t", "a">>,
      <<"f", "o", "r", "m", "a", "t">>,
      <<"d", "e", "c", "o", "d", "e">>,
      <<"e", "n", "c", "o", "d", "e">> >>,
      async |->
      << <<"a", "s", "y", "n", "c">>,
      <<"b", "a", "c", "k", "g", "r", "o", "u", "n", "d">> >>,
      webhook |->
      << <<"w", "e", "b", "h", "o", "o", "k">>,
      <<"h", "o", "o", "k">>,
      <<"g", "i", "t", "h", "u", "b">>,
      <<"g", "i", "t", "l", "a", "b">>,
      <<"b", "i", "t", "b", "u", "c", "k", "e", "t">> >> ]

\* _detect_from_config: the text that is searched.  The functions of the
\* model have no environment variables.
Lambda_analysis_text(function, user_description) ==
    Lower(function.name)
    \o (IF LabelGiven(user_description) THEN <<" ">> \o Lower(user_description) ELSE <<>>)
    \o <<" ">> \o Lower(function.handler)
    \o (IF function.has_description THEN <<" ">> \o Lower(function.description) ELSE <<>>)

\* _detect_from_config: the scores dict, in insertion order
Lambda_scores(text) ==
    << <<"api_endpoint", CountIn(Lambda_keywords.api, text)>>,
       <<"scheduled_task", CountIn(Lambda_keywords.scheduled, text)>>,
       <<"event_processor", CountIn(Lambda_keywords.event_processor, text)>>,
       <<"stream_processor", CountIn(Lambda_keywords.stream_processor, text)>>,
       <<"notification_handler", CountIn(Lambda_keywords.notification, text)>>,
       <<"data_transformation", CountIn(Lambda_keywords.data_transformation, text)>>,
       <<"async_task", IF AnyIn(Lambda_keywords.async, text) THEN 2 ELSE 0>>,
       <<"webhook_handler", IF AnyIn(Lambda_keywords.webhook, text) THEN 2 ELSE 0>> >>

\* max(scores, key=scores.get): the first key with the largest score
Lambda_best(scores) ==
    CHOOSE i \in 1..Len(scores) :
        /\ \A j \in 1..Len(scores) : scores[j][2] <= scores[i][2]
        /\ \A j \in 1..(i - 1) : scores[j][2] < scores[i][2]

\* _detect_from_config: confidence = min(score / 10.0, 1.0)
Lambda_detect_from_config(function, user_description) ==
    LET scores == Lambda_scores(Lambda_analysis_text(function, user_description))
        best == scores[Lambda_best(scores)]
    IN  IF best[2] = 0 THEN <<"unknown", 0, "none">>
        ELSE <<best[1], Min(best[2] * 10, 100), "auto">>

\* detect_intent
Lambda_detect_intent(function, user_intent, user_description) ==
    IF LabelGiven(user_intent) /\ Lambda_parse_user_intent(user_intent) # "KeyError"
    THEN <<Lambda_parse_user_intent(user_intent), 100, "explicit">>
    ELSE IF ~function.config_ok THEN <<"unknown", 0, "error">>
    ELSE Lambda_detect_from_config(function, user_description)

\* Functions of the model: name, handler and configured description.
LambdaFunctions ==
    UNION {
        [name : {<<"a", "p", "i", "-", "g", "a", "t", "e", "w", "a", "y", "-", "r", "e", "s", "t", "-", "e", "n", "d", "p", "o", "i", "n", "t">>},
         handler : {<<"i", "n", "d", "e", "x", ".", "h", "a", "n", "d", "l", "e", "r">>},
         has_description : {TRUE},
         description : {<<"H", "T", "T", "P", " ", "r", "e", "q", "u", "e", "s", "t", "/", "r", "e", "s", "p", "o", "n", "s", "e", " ", "r", "o", "u", "t", "e", "s", ",", " ", "C", "O", "R", "S", " ", "p", "e", "r", " ", "m", "e", "t", "h", "o", "d">>},
         config_ok : BOOLEAN],
        [name : {<<"o", "r", "d", "e", "r", "s", "-", "a", "p", "i">>},
         handler : {<<"a", "p", "p", ".", "h", "a", "n", "d", "l", "e", "r">>},
         has_description : {TRUE},
         description : {<<"R", "E", "S", "T", " ", "e", "n", "d", "p", "o", "i", "n", "t">>},
         config_ok : BOOLEAN],
        [name : {<<"n", "i", "g", "h", "t", "l", "y", "-", "c", "r", "o", "n", "-", "j", "o", "b">>},
         handler : {<<"m", "a", "i", "n", ".", "r", "u", "n">>},
         has_description : {FALSE},
         description : {<<>>},
         config_ok : BOOLEAN],
        [name : {<<"f", "n">>},
         handler : {<<"m", ".", "f">>},
         has_description : {FALSE},
         description : {<<>>},
         config_ok : BOOLEAN],
        [name : {<<"h", "o", "o", "k">>},
         handler : {<<"m", ".", "f">>},
         has_description : {TRUE},
         description : {<<>>},
         config_ok : BOOLEAN] }

LambdaDescriptions ==
    { <<>>,
       <<"s", "e", "n", "d", "s", " ", "e", "m", "a", "i", "l">> }

(***************************************************************************)
(*                 TIER 1 RULES AND THE SAFETY CLASSIFIER                  *)
(***************************************************************************)

\* The rule objects _load_rules keeps (classes with "check" and "fix"), in
\* module order.  intent_aware: the class has check_with_intent.
S3Rules ==
    << [id |-> "s3_unencrypted_bucket", auto_safe |-> TRUE, intent_aware |-> FALSE],
       [id |-> "s3_intent_conversion", auto_safe |-> FALSE, intent_aware |-> TRUE],
       [id |-> "s3_public_access_block", auto_safe |-> TRUE, intent_aware |-> TRUE],
       [id |-> "s3_versioning_disabled", auto_safe |-> FALSE, intent_aware |-> TRUE],
       [id |-> "s3_website_hosting", auto_safe |-> FALSE, intent_aware |-> TRUE] >>

EC2Rules ==
    << [id |-> "ec2_missing_backups", auto_safe |-> TRUE, intent_aware |-> FALSE],
       [id |-> "ec2_open_security_group", auto_safe |-> FALSE, intent_aware |-> TRUE],
       [id |-> "ec2_unencrypted_ebs", auto_safe |-> FALSE, intent_aware |-> FALSE],
       [id |-> "ec2_intent_conversion", auto_safe |-> FALSE, intent_aware |-> TRUE] >>

\* IAMIntentConversion has neither "check" nor "fix" and is not loaded.
IAMRules ==
    << [id |-> "iam_access_key_rotation", auto_safe |-> FALSE, intent_aware |-> FALSE],
       [id |-> "iam_inactive_user", auto_safe |-> TRUE, intent_aware |-> FALSE],
       [id |-> "iam_least_privilege", auto_safe |-> FALSE, intent_aware |-> FALSE],
       [id |-> "iam_mfa_enforcement", auto_safe |-> TRUE, intent_aware |-> FALSE] >>

\* LambdaAgent._load_rules keeps the classes with "id" and "check"; analyze
\* skips the ids that contain "intent_conversion".
LambdaRules ==
    << [id |-> "lambda_env_vars_unencrypted", auto_safe |-> FALSE],
       [id |-> "lambda_intent_conversion", auto_safe |-> FALSE],
       [id |-> "lambda_logging_disabled", auto_safe |-> TRUE],
       [id |-> "lambda_memory_low", auto_safe |-> TRUE],
       [id |-> "lambda_timeout_excessive", auto_safe |-> TRUE] >>

IntentConversionIds ==
    {"s3_intent_conversion", "ec2_intent_conversion", "iam_intent_conversion"}

\* The ids of the rules whose check does not compare intent and
\* configuration; which of them fires is an input of the model.
StandardIds(rules) ==
    { rules[i].id : i \in 1..Len(rules) } \ (IntentConversionIds \cup {"lambda_intent_conversion"})

\* s3_agent/rules/intent_conversion_rule.py check_with_intent
S3_intent_conflict(bucket, intent) ==
    IF intent \in {"data_storage", "data_archival", "backup_storage", "log_storage"}
    THEN bucket.website
    ELSE IF intent = "website_hosting" THEN bucket.pab_blocked
    ELSE FALSE

\* ec2_agent/rules/intent_conversion_rule.py check_with_intent
EC2_intent_conflict(instance, intent) ==
    IF ~instance.described THEN FALSE
    ELSE IF intent = "web_server"
    THEN \/ instance.has_sg /\ 80 \notin instance.ports /\ 443 \notin instance.ports
         \/ ~instance.public_ip
    ELSE IF intent = "database_server"
    THEN \/ instance.public_ip
         \/ ~AnyIn(EC2_keywords.db_instance_types, instance.instance_type)
    ELSE IF intent = "development_testing"
    THEN \/ AnyIn(EC2_keywords.expensive_types, instance.instance_type)
         \/ instance.state = "running"
    ELSE IF intent = "bastion_host"
    THEN instance.has_sg /\ instance.ssh_open_to_world
    ELSE FALSE

\* S3Agent.scan lines 127-128 (EC2Agent.scan 116-117): the confidence of the
\* bucket at hand is stored on the rule before the rule is checked.
RuleConfidenceAtCheckMutStale(stored, confidence) ==
    stored

RuleConfidenceAtCheck(stored, confidence) ==
    confidence

\* S3Agent._should_auto_apply
S3_should_auto_applyMutLowerThreshold(rule, intent, rule_confidence) ==
    IF rule.id = "s3_intent_conversion" THEN rule_confidence >= 60
    ELSE rule.auto_safe

S3_should_auto_apply(rule, intent, rule_confidence) ==
    IF rule.id = "s3_intent_conversion" THEN rule_confidence >= 100
    ELSE IF intent = "website_hosting" /\ rule.id = "s3_public_access_block" THEN FALSE
    ELSE IF intent = "website_hosting" /\ rule.id = "s3_website_hosting"
    THEN (IF rule_confidence >= 80 THEN TRUE ELSE rule.auto_safe)
    ELSE IF intent \in {"data_storage", "data_archival", "backup_storage"}
            /\ rule.id = "s3_public_access_block" THEN TRUE
    ELSE IF intent = "unknown" /\ rule.id = "s3_public_access_block" THEN FALSE
    ELSE rule.auto_safe

\* EC2Agent._should_auto_apply
EC2_should_auto_apply(rule, intent, rule_confidence, instance_state) ==
    IF rule.id = "ec2_intent_conversion" THEN rule_confidence >= 100
    ELSE IF intent = "web_server" /\ rule.id = "ec2_open_security_group" THEN FALSE
    ELSE IF intent = "web_server" /\ rule.id = "ec2_missing_monitoring" THEN TRUE
    ELSE IF intent = "database_server" /\ rule.id = "ec2_public_database" THEN TRUE
    ELSE IF intent = "database_server" /\ rule.id = "ec2_unencrypted_ebs" THEN FALSE
    ELSE IF intent = "database_server" /\ rule.id = "ec2_missing_backups" THEN TRUE
    ELSE IF intent = "development_testing" /\ rule.id = "ec2_unused_instance"
            /\ instance_state = "stopped" THEN TRUE
    ELSE IF intent = "development_testing" /\ rule.id = "ec2_oversized_instance" THEN FALSE
    ELSE IF intent = "development_testing" /\ rule.id = "ec2_missing_monitoring" THEN TRUE
    ELSE IF intent = "bastion_host" /\ rule.id = "ec2_open_security_group" THEN FALSE
    ELSE IF intent = "bastion_host" /\ rule.id = "ec2_missing_monitoring" THEN TRUE
    ELSE IF intent = "batch_processing" /\ rule.id \in {"ec2_unused_instance", "ec2_missing_monitoring"} THEN TRUE
    ELSE IF intent = "high_performance_computing" /\ rule.id = "ec2_oversized_instance" THEN FALSE
    ELSE IF intent = "high_performance_computing" /\ rule.id = "ec2_missing_monitoring" THEN TRUE
    ELSE IF intent = "unknown"
    THEN rule.id \in {"ec2_missing_monitoring", "ec2_missing_backups"}
    ELSE rule.auto_safe

\* IAMAgent._should_auto_apply; risk_score is the attribute of the
\* least-privilege rule.
IAM_should_auto_apply(rule, intent, rule_confidence, risk_score) ==
    IF rule.id = "iam_intent_conversion" THEN rule_confidence >= 100
    ELSE IF intent = "least_privilege" /\ rule.id = "iam_least_privilege" THEN risk_score < 20
    ELSE IF intent = "least_privilege" /\ rule.id = "iam_mfa_enforcement" THEN TRUE
    ELSE IF intent = "strong_security" /\ rule.id \in {"iam_mfa_enforcement", "iam_access_key_rotation"} THEN TRUE
    ELSE IF intent = "strong_security" /\ rule.id = "iam_least_privilege" THEN FALSE
    ELSE IF intent = "service_account" /\ rule.id \in {"iam_mfa_enforcement", "iam_inactive_user"} THEN FALSE
    ELSE IF intent = "developer_flexibility" /\ rule.id = "iam_least_privilege" THEN FALSE
    ELSE IF intent = "developer_flexibility" /\ rule.id = "iam_mfa_enforcement" THEN TRUE
    ELSE IF intent = "compliance" /\ rule.id \in {"iam_mfa_enforcement", "iam_access_key_rotation", "iam_inactive_user"} THEN TRUE
    ELSE IF intent = "compliance" /\ rule.id = "iam_least_privilege" THEN FALSE
    ELSE IF intent = "unknown" /\ rule.id \in {"iam_mfa_enforcement", "iam_access_key_rotation"} THEN FALSE
    ELSE rule.auto_safe

\* "auto_safe = self._should_auto_apply(rule, intent, ...)" of the Tier 1
\* loop: the call for a rule that fired, and the value it returned.
Decided(rule, auto_safe) ==
    [rule_id |-> rule.id, auto_safe |-> auto_safe]

\* The finding dict the Tier 1 loop appends for a rule that fired.
RuleFinding(service, resource, rule, result, auto_safe) ==
    [service |-> service, resource |-> resource, rule_id |-> rule.id,
     issue |-> <<"detection of ", rule.id>>,
     auto_safe |-> auto_safe, source |-> "rule",
     intent |-> result[1], intent_confidence |-> result[2]]

\* "for rule in self.rules: ... if issue_found: findings.append(finding)"
\* issue_found[i] tells whether rule i fired, finding_of[i] is its finding.
RuleFindings(rules, issue_found, finding_of) ==
    LET Fired(i) == issue_found[i]
        fired == SelectSeq([i \in 1..Len(rules) |-> i], Fired)
    IN  [k \in 1..Len(fired) |-> finding_of[fired[k]]]

(***************************************************************************)
(* The agents' Tier 1 loops.  In mode "scan" the agent detects the intent  *)
(* of a resource (no description is passed) and applies its rules; in mode *)
(* "call" detect_intent is called on its own, with a description.          *)
(***************************************************************************)
IntentInit ==
    /\ ic_pc = "detect"
    /\ ic_svc \in {"s3", "ec2", "iam", "lambda"}
    /\ ic_mode \in {"scan", "call"}
    /\ ic_n = 0
    /\ ic_res = <<>>
    /\ ic_label = <<>>
    /\ ic_desc = <<>>
    /\ ic_result = <<>>
    /\ ic_rule_conf = 0
    /\ ic_findings = <<>>
    /\ ic_decided = <<>>
    /\ FxIdle
    /\ DdIdle
    /\ ScIdle
    /\ RlIdle
    /\ PlIdle
    /\ DcIdle
    /\ SnIdle
    /\ OdIdle
    /\ CaIdle

DescriptionsFor(mode, descriptions) ==
    IF mode = "scan" THEN {NoLabel} ELSE descriptions \ {NoLabel}

AfterDetect(mode) ==
    IF mode = "scan" THEN "rules" ELSE "next"

\* S3Agent.scan lines 96-114 / IntentDetector.detect_intent
S3_DetectIntent ==
    /\ ic_pc = "detect"
    /\ ic_svc = "s3"
    /\ \E bucket \in S3Buckets, user_intent \in Labels.s3,
          description \in DescriptionsFor(ic_mode, S3Descriptions) :
        /\ ic_res' = bucket
        /\ ic_label' = user_intent
        /\ ic_desc' = description
        /\ ic_result' = S3_detect_intent(bucket, user_intent, description)
    /\ ic_pc' = AfterDetect(ic_mode)
    /\ UNCHANGED <<ic_svc, ic_mode, ic_n, ic_rule_conf, ic_findings, ic_decided>>
    /\ UNCHANGED nonIcVars

\* S3Agent.scan lines 120-217: the rule loop for one bucket
S3_ApplyRules ==
    /\ ic_pc = "rules"
    /\ ic_svc = "s3"
    /\ \E fired \in {"none"} \cup StandardIds(S3Rules) :
        LET confidence == RuleConfidenceAtCheck(ic_rule_conf, ic_result[2])
            IssueFound(rule) ==
                IF rule.id = "s3_intent_conversion"
                THEN S3_intent_conflict(ic_res, ic_result[1])
                ELSE rule.id = fired
            auto_safe(rule) == S3_should_auto_apply(rule, ic_result[1], confidence)
            FindingOf(rule) ==
                RuleFinding("s3", ic_res.name, rule, ic_result, auto_safe(rule))
        IN  /\ ic_findings' = RuleFindings(S3Rules,
                    [i \in 1..Len(S3Rules) |-> IssueFound(S3Rules[i])],
                    [i \in 1..Len(S3Rules) |-> FindingOf(S3Rules[i])])
            /\ ic_decided' = RuleFindings(S3Rules,
                    [i \in 1..Len(S3Rules) |-> IssueFound(S3Rules[i])],
                    [i \in 1..Len(S3Rules) |->
                        Decided(S3Rules[i], auto_safe(S3Rules[i]))])
            /\ ic_rule_conf' = confidence
    /\ ic_pc' = "next"
    /\ UNCHANGED <<ic_svc, ic_mode, ic_n, ic_res, ic_label, ic_desc, ic_result>>
    /\ UNCHANGED nonIcVars

\* EC2Agent.scan lines 86-107 / EC2IntentDetector.detect_intent
EC2_DetectIntent ==
    /\ ic_pc = "detect"
    /\ ic_svc = "ec2"
    /\ \E instance \in EC2Instances, user_intent \in Labels.ec2,
          description \in DescriptionsFor(ic_mode, EC2Descriptions) :
        /\ ic_res' = instance
        /\ ic_label' = user_intent
        /\ ic_desc' = description
        /\ ic_result' = EC2_detect_intent(instance, user_intent, description)
    /\ ic_pc' = AfterDetect(ic_mode)
    /\ UNCHANGED <<ic_svc, ic_mode, ic_n, ic_rule_conf, ic_findings, ic_decided>>
    /\ UNCHANGED nonIcVars

\* EC2Agent.scan lines 110-180: the rule loop for one instance
EC2_ApplyRules ==
    /\ ic_pc = "rules"
    /\ ic_svc = "ec2"
    /\ \E fired \in {"none"} \cup StandardIds(EC2Rules) :
        LET confidence == RuleConfidenceAtCheck(ic_rule_conf, ic_result[2])
            IssueFound(rule) ==
                IF rule.id = "ec2_intent_conversion"
                THEN EC2_intent_conflict(ic_res, ic_result[1])
                ELSE rule.id = fired
            auto_safe(rule) ==
                EC2_should_auto_apply(rule, ic_result[1], confidence, ic_res.state)
            FindingOf(rule) ==
                RuleFinding("ec2", "i-1", rule, ic_result, auto_safe(rule))
        IN  /\ ic_findings' = RuleFindings(EC2Rules,
                    [i \in 1..Len(EC2Rules) |-> IssueFound(EC2Rules[i])],
                    [i \in 1..Len(EC2Rules) |-> FindingOf(EC2Rules[i])])
            /\ ic_decided' = RuleFindings(EC2Rules,
                    [i \in 1..Len(EC2Rules) |-> IssueFound(EC2Rules[i])],
                    [i \in 1..Len(EC2Rules) |->
                        Decided(EC2Rules[i], auto_safe(EC2Rules[i]))])
            /\ ic_rule_conf' = confidence
    /\ ic_pc' = "next"
    /\ UNCHANGED <<ic_svc, ic_mode, ic_n, ic_res, ic_label, ic_desc, ic_result>>
    /\ UNCHANGED nonIcVars

\* IAMAgent.scan lines 100-117 / IAMIntentDetector.detect_intent
IAM_DetectIntent ==
    /\ ic_pc = "detect"
    /\ ic_svc = "iam"
    /\ \E resource \in IAMResources, user_intent \in Labels.iam,
          description \in DescriptionsFor(ic_mode, IAMDescriptions) :
        /\ ic_res' = resource
        /\ ic_label' = user_intent
        /\ ic_desc' = description
        /\ ic_result' = IAM_detect_intent(resource, user_intent, description)
    /\ ic_pc' = AfterDetect(ic_mode)
    /\ UNCHANGED <<ic_svc, ic_mode, ic_n, ic_rule_conf, ic_findings, ic_decided>>
    /\ UNCHANGED nonIcVars

\* IAMAgent.scan lines 120-190: the rule loop for one resource.  No loaded
\* rule has the id "iam_intent_conversion", so no rule object gets a
\* confidence stored.
IAM_ApplyRules ==
    /\ ic_pc = "rules"
    /\ ic_svc = "iam"
    /\ \E fired \in {"none"} \cup StandardIds(IAMRules), risk_score \in {10, 60} :
        LET IssueFound(rule) == rule.id = fired
            auto_safe(rule) ==
                IAM_should_auto_apply(rule, ic_result[1], ic_rule_conf, risk_score)
            FindingOf(rule) ==
                RuleFinding("iam", ic_res.name, rule, ic_result, auto_safe(rule))
        IN  /\ ic_findings' = RuleFindings(IAMRules,
                    [i \in 1..Len(IAMRules) |-> IssueFound(IAMRules[i])],
                    [i \in 1..Len(IAMRules) |-> FindingOf(IAMRules[i])])
            /\ ic_decided' = RuleFindings(IAMRules,
                    [i \in 1..Len(IAMRules) |-> IssueFound(IAMRules[i])],
                    [i \in 1..Len(IAMRules) |->
                        Decided(IAMRules[i], auto_safe(IAMRules[i]))])
    /\ ic_pc' = "next"
    /\ UNCHANGED <<ic_svc, ic_mode, ic_n, ic_res, ic_label, ic_desc, ic_result,
                   ic_rule_conf>>
    /\ UNCHANGED nonIcVars

\* lambda_agents IntentDetector.detect_intent called on its own
Lambda_DetectIntent ==
    /\ ic_pc = "detect"
    /\ ic_svc = "lambda"
    /\ ic_mode = "call"
    /\ \E function \in LambdaFunctions, user_intent \in Labels.lambda,
          description \in LambdaDescriptions :
        /\ ic_res' = function
        /\ ic_label' = user_intent
        /\ ic_desc' = description
        /\ ic_result' = Lambda_detect_intent(function, user_intent, description)
    /\ ic_pc' = "next"
    /\ UNCHANGED <<ic_svc, ic_mode, ic_n, ic_rule_conf, ic_findings, ic_decided>>
    /\ UNCHANGED nonIcVars

\* LambdaAgent.analyze lines 124-177: the rule loop for one function; the
\* intent is detected when a rule's check fires, and auto_safe is the rule's.
Lambda_ApplyRules ==
    /\ ic_pc = "detect"
    /\ ic_svc = "lambda"
    /\ ic_mode = "scan"
    /\ \E function \in LambdaFunctions, user_intent \in Labels.lambda,
          fired \in {"none"} \cup StandardIds(LambdaRules) :
        LET result == Lambda_detect_intent(function, user_intent, NoLabel)
            IssueFound(rule) == rule.id = fired
            FindingOf(rule) ==
                RuleFinding("lambda", function.name, rule, result, rule.auto_safe)
        IN  /\ ic_res' = function
            /\ ic_label' = user_intent
            /\ ic_desc' = NoLabel
            /\ ic_result' = IF fired = "none" THEN <<>> ELSE result
            /\ ic_findings' = RuleFindings(LambdaRules,
                    [i \in 1..Len(LambdaRules) |-> IssueFound(LambdaRules[i])],
                    [i \in 1..Len(LambdaRules) |-> FindingOf(LambdaRules[i])])
            /\ ic_decided' = <<>>
    /\ ic_pc' = "next"
    /\ UNCHANGED <<ic_svc, ic_mode, ic_n, ic_rule_conf>>
    /\ UNCHANGED nonIcVars

\* The loop moves to the next resource (or the call returns): the locals of
\* the iteration are dead.
Scan_NextResource ==
    /\ ic_pc = "next"
    /\ ic_n' = ic_n + 1
    /\ ic_pc' = IF ic_n + 1 < MaxResources THEN "detect" ELSE "done"
    /\ ic_res' = <<>>
    /\ ic_label' = <<>>
    /\ ic_desc' = <<>>
    /\ ic_result' = <<>>
    /\ ic_findings' = <<>>
    /\ ic_decided' = <<>>
    /\ UNCHANGED <<ic_svc, ic_mode, ic_rule_conf>>
    /\ UNCHANGED nonIcVars

IntentNext ==
    \/ S3_DetectIntent
    \/ S3_ApplyRules
    \/ EC2_DetectIntent
    \/ EC2_ApplyRules
    \/ IAM_DetectIntent
    \/ IAM_ApplyRules
    \/ Lambda_DetectIntent
    \/ Lambda_ApplyRules
    \/ Scan_NextResource

SpecIntent == IntentInit /\ [][IntentNext]_vars

(***************************************************************************)
(* Properties of the classifiers.                                          *)
(***************************************************************************)
\* The intent the supplied label names, "unknown" / "KeyError" when it names
\* none.
LabelIntent ==
    CASE ic_svc = "s3" -> S3_parse_user_intent(ic_label)
      [] ic_svc = "ec2" -> EC2_parse_user_intent(ic_label)
      [] ic_svc = "iam" -> IAM_parse_user_intent(ic_label)
      [] OTHER -> Lambda_parse_user_intent(ic_label)

\* The caller supplied a label that names an intent of the resource type.
IntentExplicitlySupplied ==
    /\ LabelGiven(ic_label)
    /\ IF ic_svc = "lambda" THEN LabelIntent # "KeyError" ELSE LabelIntent # "unknown"

Detected ==
    ic_result # <<>>

IsIntentConflict(f) ==
    f.rule_id \in IntentConversionIds

\* C3: a finding of an intent-conversion rule whose intent confidence is
\* below 1.0 is never auto-safe.
C3_ConflictBelowFullConfidenceIsManual ==
    \A k \in 1..Len(ic_findings) :
        (IsIntentConflict(ic_findings[k]) /\ ic_findings[k].intent_confidence < 100)
            => ~ic_findings[k].auto_safe

\* C3 witness: an intent conflict found under an inferred intent of
\* confidence 0.85 and classified manual.
C3_Witness ==
    \E k \in 1..Len(ic_findings) :
        /\ IsIntentConflict(ic_findings[k])
        /\ ic_findings[k].intent_confidence = 85
        /\ ~ic_findings[k].auto_safe
        /\ ~LabelGiven(ic_label)

\* C4 (as claimed): an intent-conflict finding is auto-safe only when the
\* intent was explicitly supplied; under an inferred intent it is manual.
C4_ConflictAutoSafeOnlyIfExplicit ==
    \A k \in 1..Len(ic_findings) :
        (IsIntentConflict(ic_findings[k]) /\ ic_findings[k].auto_safe)
            => IntentExplicitlySupplied

\* C5 (as claimed): confidence 1.0 is returned only for an explicitly
\* supplied intent; every inferred result is strictly below 1.0.
C5_FullConfidenceOnlyIfExplicit ==
    (Detected /\ ~IntentExplicitlySupplied) => ic_result[2] < 100

\* C6: a supplied label that names an intent yields exactly that intent with
\* confidence 1.0, whatever the description and the resource's signals are.
C6_ExplicitLabelWins ==
    (Detected /\ IntentExplicitlySupplied)
        => (ic_result[1] = LabelIntent /\ ic_result[2] = 100)

\* C6 witness: the label " CDN " on a bucket whose description and website
\* configuration both point to website hosting.
C6_Witness ==
    /\ Detected
    /\ ic_svc = "s3"
    /\ ic_label = <<" ", "C", "D", "N", " ">>
    /\ S3_analyze_user_description(ic_desc)[2] > 70
    /\ ic_res.website
    /\ ic_result[1] = "cdn_origin"
    /\ ic_result[2] = 100

(***************************************************************************)
(* Finding Deduplicator: S3Agent / IAMAgent / LambdaAgent                  *)
(* _deduplicate_findings.  A finding is a dict; "tier" and "issue" may be  *)
(* missing, read with .get and a default.                                  *)
(***************************************************************************)
\* Findings one call is handed at most.
MaxDedupLen == 3

\* key=lambda x: x.get('tier', 0)
TierKey(x) ==
    Get(x, "tier", 0)

RECURSIVE SortByKey(_, _)
SortByKey(fs, keys) ==
    IF keys = {} THEN <<>>
    ELSE LET least == CHOOSE t \in keys : \A u \in keys : t <= u
             HasLeast(x) == TierKey(x) = least
         IN  SelectSeq(fs, HasLeast) \o SortByKey(fs, keys \ {least})

\* The list in input order: what the loop would go through without sorted().
sorted_by_tierMutUnsorted(fs) ==
    fs

\* sorted(findings, key=...): ascending by key, equal keys in input order.
sorted_by_tier(fs) ==
    SortByKey(fs, { TierKey(fs[i]) : i \in DOMAIN fs })

\* (finding.get('resource', ''), finding.get('issue', '').lower().strip())
DedupKey(x) ==
    <<Get(x, "resource", ""), Strip(Lower(Get(x, "issue", <<>>)))>>

\* The loop body: "if key not in seen: ... unique.append(finding)".
RECURSIVE DedupLoop(_, _, _)
DedupLoop(rest, seen, unique) ==
    IF rest = <<>> THEN unique
    ELSE LET finding == Head(rest)
             key == DedupKey(finding)
         IN  IF key \notin seen
             THEN DedupLoop(Tail(rest), seen \cup {key}, Append(unique, finding))
             ELSE DedupLoop(Tail(rest), seen, unique)

deduplicate_findings(fs) ==
    DedupLoop(sorted_by_tier(fs), {}, <<>>)

\* Source tag the agents attach with each tier; Tier 1 findings of the S3 and
\* IAM agents carry no "tier" key at all.
SourceOfTier(t) ==
    CASE t = 1 -> "rule" [] t = 2 -> "rag" [] OTHER -> "llm"

DedupIssues ==
    { <<"O", "p", "e", "n">>, <<" ", "o", "p", "e", "n", " ">>, <<"E", "n", "c">> }

DedupFindings ==
    { [resource |-> "b1", issue |-> i, tier |-> t, source |-> SourceOfTier(t)] :
        i \in DedupIssues, t \in 1..3 }
    \cup { [resource |-> "b1", issue |-> i, source |-> "rule"] : i \in DedupIssues }
    \cup { [resource |-> "b2", issue |-> <<"O", "p", "e", "n">>, tier |-> t,
            source |-> SourceOfTier(t)] : t \in {1, 3} }
    \cup { [resource |-> "b1", source |-> "rag", tier |-> 2, doc_id |-> k] : k \in {1, 2} }

\* Findings of IAMAgent carry the resource type; a user and a role may have
\* one name.
IAMDedupFindings ==
    { [resource |-> "b1", resource_type |-> t, issue |-> <<"E", "n", "c">>,
       source |-> "rule"] : t \in {"user", "role"} }
    \cup { [resource |-> "b1", resource_type |-> "role", issue |-> <<"e", "n", "c", " ">>,
            tier |-> 3, source |-> "llm"] }

DedupInit ==
    /\ dd_pc = "call"
    /\ dd_input \in SeqsUpTo(DedupFindings, MaxDedupLen)
                    \cup SeqsUpTo(IAMDedupFindings, MaxDedupLen)
    /\ dd_result = <<>>
    /\ FxIdle
    /\ IcIdle
    /\ ScIdle
    /\ RlIdle
    /\ PlIdle
    /\ DcIdle
    /\ SnIdle
    /\ OdIdle
    /\ CaIdle

\* findings = self._deduplicate_findings(findings)
Dedup_Call ==
    /\ dd_pc = "call"
    /\ dd_result' = deduplicate_findings(dd_input)
    /\ dd_pc' = "done"
    /\ UNCHANGED dd_input
    /\ UNCHANGED nonDdVars

DedupNext ==
    Dedup_Call

SpecDedup == DedupInit /\ [][DedupNext]_vars

\* Positions of the input whose finding has the key of position i.
SameKey(i) ==
    { j \in DOMAIN dd_input : DedupKey(dd_input[j]) = DedupKey(dd_input[i]) }

\* The findings of position i's key all carry a tier, and tiers 1, 2 and 3
\* all occur among them.
AtTiersOneTwoThree(i) ==
    /\ \A j \in SameKey(i) : "tier" \in DOMAIN dd_input[j]
    /\ { dd_input[j].tier : j \in SameKey(i) } = {1, 2, 3}

\* C7: when the findings of one resource and one normalized issue are at
\* tiers 1, 2 and 3, in whatever order they come, the returned list holds
\* exactly one finding of that key and it is the (first) tier-1 finding.
C7_TierOneWinsDedup ==
    dd_pc = "done" =>
        \A i \in DOMAIN dd_input :
            AtTiersOneTwoThree(i) =>
                LET HasKey(x) == DedupKey(x) = DedupKey(dd_input[i])
                    kept == SelectSeq(dd_result, HasKey)
                    first == CHOOSE j \in SameKey(i) :
                                /\ dd_input[j].tier = 1
                                /\ \A m \in SameKey(i) :
                                      dd_input[m].tier = 1 => j <= m
                IN  kept = <<dd_input[first]>>

\* C7 witness: the same issue of one bucket, spelled differently, handed in
\* as tier 3, tier 2, tier 1; only the tier-1 finding is returned.
C7_Witness ==
    /\ dd_pc = "done"
    /\ Len(dd_input) = 3
    /\ dd_input[1] = [resource |-> "b1", issue |-> <<" ", "o", "p", "e", "n", " ">>,
                      tier |-> 3, source |-> "llm"]
    /\ dd_input[2] = [resource |-> "b1", issue |-> <<"O", "p", "e", "n">>,
                      tier |-> 2, source |-> "rag"]
    /\ dd_input[3] = [resource |-> "b1", issue |-> <<" ", "o", "p", "e", "n", " ">>,
                      tier |-> 1, source |-> "rule"]
    /\ dd_result = <<dd_input[3]>>

(***************************************************************************)
(* Tiered Detector: S3Agent.scan, EC2Agent.scan, IAMAgent.scan.  Each loop *)
(* of scan goes through the resources in order; one step of the model is   *)
(* one iteration of the running loop.                                      *)
(***************************************************************************)
\* Resources one scan goes through.
MaxScanResources == 2

\* "if len(bucket_findings) < 3" / "if len(resource_findings) < 3"
FallbackThreshold == 3

\* The generative tier called whatever the count is.
Tier3GateMutUngated(count) ==
    TRUE

Tier3Gate(count) ==
    count < FallbackThreshold

Digits == <<"1", "2", "3", "4", "5">>

\* Bucket names and instance ids are unique.  IAM names are unique per
\* resource type only: a user and a role may share one.
ScanNames(svc) ==
    LET names == <<"a", "b", "c", "d">>
        unique == [i \in 1..MaxScanResources |-> names[i]]
        shared == [i \in 1..MaxScanResources |-> IF i <= 2 THEN "a" ELSE names[i]]
    IN  IF svc = "iam" THEN {unique, shared} ELSE {unique}

\* Outcomes of the rule loop for one resource: <<rules that reported an
\* issue, rules whose check raised>>.  S3Agent calls every check inside the
\* try; EC2Agent calls check_with_intent (two rules) there and the other
\* checks through _call_rule_check, which swallows exceptions; all checks of
\* the IAM rules go through _call_rule_check.
Tier1Outcomes(svc) ==
    CASE svc = "s3" -> { <<0, 0>>, <<1, 0>>, <<3, 0>>, <<0, 1>>, <<2, 1>> }
      [] svc = "ec2" -> { <<0, 0>>, <<1, 0>>, <<3, 0>>, <<0, 1>>, <<0, 2>> }
      [] OTHER -> { <<0, 0>>, <<1, 0>>, <<3, 0>> }

\* The findings of the rule loop for one resource.  "auto_safe" is what
\* _should_auto_apply returned: the first issue reported is one it found
\* safe to fix, the others are for review; the finding of a check that
\* raised has "auto_safe": False.
Tier1Findings(name, out) ==
    [k \in 1..out[1] |->
        [resource |-> name, issue |-> <<"r", Digits[k]>>, source |-> "rule",
         auto_safe |-> (k = 1)]]
    \o [k \in 1..out[2] |->
        [resource |-> name, issue |-> <<"e", Digits[out[1] + k]>>,
         source |-> "rule_error", auto_safe |-> FALSE]]

\* Documents search_security_issues returns for one resource (top_k=5 caps
\* them); the finding dicts it builds have no "issue" key.
RagCounts == {0, 2, 3}

\* search_security_issues returns its documents, or raises at
\* json.dumps(configuration) when the configuration of the resource holds a
\* value json cannot serialize (a datetime of a boto3 response); scan has no
\* try around Tier 2.
RagSearchOutcomes ==
    { [exception |-> NoneVal, count |-> n] : n \in RagCounts }
    \cup { [exception |-> "TypeError", count |-> 0] }

RagFindings(name, n) ==
    [k \in 1..n |-> [resource |-> name, source |-> "rag", tier |-> 2, doc_id |-> k]]

\* What generate_content answers: a text json.loads rejects, a JSON text
\* that is not an object, or an object whose "findings" are dicts that may
\* lack the key "issue" and may say applies_to_intent false.  The issue of
\* a finding is a text of the model's own, or words Tier 1 uses as well.
LlmIssue(has_issue, applies, issue) ==
    [has_issue |-> has_issue, applies_to_intent |-> applies, issue |-> issue]

LlmResponses ==
    { [json |-> FALSE, shape |-> "text", findings |-> <<>>],
      [json |-> TRUE, shape |-> "list", findings |-> <<>>] }
    \cup { [json |-> TRUE, shape |-> "dict", findings |-> fs] :
             fs \in { <<>>, <<LlmIssue(TRUE, TRUE, <<"l", "1">>)>>,
                      <<LlmIssue(TRUE, FALSE, <<"l", "1">>)>>,
                      <<LlmIssue(FALSE, TRUE, <<>>)>>,
                      <<LlmIssue(TRUE, TRUE, <<"R", "1", " ">>)>>,
                      <<LlmIssue(TRUE, TRUE, <<"l", "1">>), LlmIssue(FALSE, TRUE, <<>>)>> } }

\* The finding analyze_security_issues builds of one issue.
LlmFindingMutAutoSafe(svc, name, issue) ==
    [resource |-> svc \o "://" \o name, issue |-> issue.issue,
     auto_safe |-> TRUE, detection_method |-> "llm"]

LlmFinding(svc, name, issue) ==
    [resource |-> svc \o "://" \o name, issue |-> issue.issue,
     auto_safe |-> FALSE, detection_method |-> "llm"]

\* The findings built are returned although a later issue lacks its key.
analyze_security_issuesMutKeepsPartial(svc, name, response) ==
    IF ~response.json \/ response.shape # "dict" THEN <<>>
    ELSE LET Built(issue) == issue.applies_to_intent /\ issue.has_issue
             built == SelectSeq(response.findings, Built)
         IN  [k \in DOMAIN built |-> LlmFinding(svc, name, built[k])]

\* LLMSecurityAnalyzer.analyze_security_issues: json.loads raises
\* JSONDecodeError, result.get raises AttributeError on a non-object,
\* issue['issue'] raises KeyError; each "except" returns [].  Their
\* resource is "<service>://<name>".
analyze_security_issues(svc, name, response) ==
    IF ~response.json THEN <<>>
    ELSE IF response.shape # "dict" THEN <<>>
    ELSE LET Applies(issue) == issue.applies_to_intent
             applies == SelectSeq(response.findings, Applies)
         IN  IF \E k \in DOMAIN applies : ~applies[k].has_issue THEN <<>>
             ELSE [k \in DOMAIN applies |-> LlmFinding(svc, name, applies[k])]

\* "for llm_finding in llm_findings: llm_finding['source'] = 'llm' ..."
scan_llm_findings(llm_findings) ==
    [k \in DOMAIN llm_findings |->
        [resource |-> llm_findings[k].resource, issue |-> llm_findings[k].issue,
         auto_safe |-> llm_findings[k].auto_safe, source |-> "llm", tier |-> 3]]

\* DocSearch.search returns a dict, or at last the string "No direct rule
\* found. ..." of _fallback_search: never a falsy value.
DocSearchResults == {"dict", "str"}

\* [f for f in findings if f.get("resource") == name]
CountFor(fs, name) ==
    Cardinality({ k \in DOMAIN fs : Get(fs[k], "resource", NoneVal) = name })

\* any(f["source"] == "rule" for f in findings)
HasRuleFinding(fs) ==
    \E k \in DOMAIN fs : fs[k].source = "rule"

\* The loop that follows the Tier 1 loop.
AfterTier1MutTier3First(svc, fs) ==
    IF svc = "s3" THEN "tier3"
    ELSE IF ~HasRuleFinding(fs) THEN "fallback"
    ELSE IF svc = "ec2" THEN "return"
    ELSE "tier2"

AfterTier1(svc, fs) ==
    IF svc = "s3" THEN "tier2"
    ELSE IF ~HasRuleFinding(fs) THEN "fallback"
    ELSE IF svc = "ec2" THEN "return"
    ELSE "tier2"

\* executor.format_for_fixer: f["resource"], f["issue"] and defaults.  What a
\* call comes to is written [exception, value]: the exception it raised
\* (None when it returned) and the value it returned.
format_for_fixer(fs) ==
    IF \E k \in DOMAIN fs : "issue" \notin DOMAIN fs[k]
    THEN [exception |-> "KeyError", value |-> <<>>]
    ELSE [exception |-> NoneVal,
          value |-> [k \in DOMAIN fs |->
                        [resource |-> fs[k].resource, issue |-> fs[k].issue,
                         auto_safe |-> Get(fs[k], "auto_safe", FALSE)]]]

\* The values scan is given as user_intent_input: a dict from resource names
\* to intent labels that may hold the key "_global_intent", or nothing.
UserIntentInputs ==
    { [k \in keys |-> IF k = "_global_intent" THEN "web" ELSE "db"] :
        keys \in SUBSET {"a", "_global_intent"} }

\* The user_intent a stage of scan hands to detect_intent for one resource.
\* Tier 1, Tier 2, Tier 3: "user_intent = user_intent_input.get(name)", then
\* "if not user_intent: user_intent = user_intent_input.get('_global_intent')".
\* The document-search loop of EC2Agent and IAMAgent:
\* "user_intent = user_intent_input.get(name) if user_intent_input else None".
user_intent_at(stage, user_intent_input, name) ==
    LET own == Get(user_intent_input, name, NoneVal)
    IN  IF stage = "fallback" \/ Truthy(own) THEN own
        ELSE Get(user_intent_input, "_global_intent", NoneVal)

Classified(stage, i) ==
    <<stage, i, user_intent_at(stage, sc_intent_input, sc_names[i])>>

\* "intent, confidence, reasoning = self.intent_detector.detect_intent(name,
\* self.client, user_intent)" of a stage of scan: the classification of
\* resource i under the label the stage hands over.
scan_detect_intent(stage, i) ==
    [of |-> i, user_intent |-> user_intent_at(stage, sc_intent_input, sc_names[i])]

\* "'intent': intent.value, 'intent_confidence': confidence" of the finding
\* dicts a stage appends.
WithIntent(fs, intent) ==
    [k \in DOMAIN fs |-> fs[k] @@ [intent |-> intent]]

ScanInit ==
    /\ sc_pc = "tier1"
    /\ sc_svc \in {"s3", "ec2", "iam"}
    /\ sc_llm \in (IF sc_svc = "ec2" THEN {FALSE} ELSE BOOLEAN)
    /\ sc_names \in ScanNames(sc_svc)
    /\ sc_i = 1
    /\ sc_findings = <<>>
    /\ sc_t12 = [i \in 1..MaxScanResources |-> 0]
    /\ sc_llm_calls = [i \in 1..MaxScanResources |-> 0]
    /\ sc_result = <<>>
    /\ sc_results = "unset"
    /\ sc_intent_input \in UserIntentInputs
    /\ sc_used = {}
    /\ sc_intent = [of |-> 0, user_intent |-> NoneVal]
    /\ sc_searched = {}
    /\ sc_response = [json |-> FALSE, shape |-> "unasked", findings |-> <<>>]
    /\ FxIdle
    /\ IcIdle
    /\ DdIdle
    /\ RlIdle
    /\ PlIdle
    /\ DcIdle
    /\ SnIdle
    /\ OdIdle
    /\ CaIdle

\* "for bucket in buckets:" -- the loop goes on, or the next one starts.
LoopStep(next_pc) ==
    /\ sc_i' = IF sc_i < Len(sc_names) THEN sc_i + 1 ELSE 1
    /\ sc_pc' = IF sc_i < Len(sc_names) THEN sc_pc ELSE next_pc

\* Tier 1: the rule loop for one resource
Scan_Tier1 ==
    /\ sc_pc = "tier1"
    /\ \E out \in Tier1Outcomes(sc_svc) :
        LET fs == sc_findings
                    \o WithIntent(Tier1Findings(sc_names[sc_i], out),
                                  scan_detect_intent("tier1", sc_i))
        IN  /\ sc_findings' = fs
            /\ sc_t12' = [sc_t12 EXCEPT ![sc_i] = @ + out[1] + out[2]]
            /\ LoopStep(AfterTier1(sc_svc, fs))
    /\ sc_used' = sc_used \cup {Classified("tier1", sc_i)}
    /\ sc_intent' = scan_detect_intent("tier1", sc_i)
    /\ UNCHANGED <<sc_svc, sc_llm, sc_names, sc_llm_calls, sc_result, sc_results,
                   sc_intent_input, sc_searched, sc_response>>
    /\ UNCHANGED nonScVars

\* EC2Agent / IAMAgent: "if not any(f['source'] == 'rule' ...)": document
\* search for one resource, llm_fallback.suggest_fix when it finds nothing
Scan_Fallback ==
    /\ sc_pc = "fallback"
    /\ sc_intent' = IF CountFor(sc_findings, sc_names[sc_i]) = 0
                    THEN scan_detect_intent("fallback", sc_i)
                    ELSE sc_intent
    /\ \E docs \in DocSearchResults :
        IF Truthy(docs)
        THEN /\ sc_findings' = Append(sc_findings,
                    [resource |-> sc_names[sc_i], issue |-> <<"d">>,
                     auto_safe |-> FALSE, source |-> "doc_search",
                     intent |-> sc_intent'])
             /\ sc_t12' = [sc_t12 EXCEPT ![sc_i] = @ + 1]
             /\ UNCHANGED sc_llm_calls
        ELSE /\ sc_findings' = Append(sc_findings,
                    [resource |-> sc_names[sc_i], issue |-> <<"u">>,
                     auto_safe |-> FALSE, source |-> "llm",
                     intent |-> sc_intent'])
             /\ sc_llm_calls' = [sc_llm_calls EXCEPT ![sc_i] = @ + 1]
             /\ UNCHANGED sc_t12
    /\ sc_used' = IF CountFor(sc_findings, sc_names[sc_i]) = 0
                  THEN sc_used \cup {Classified("fallback", sc_i)}
                  ELSE sc_used
    /\ LoopStep(IF sc_svc = "ec2" THEN "return" ELSE "tier2")
    /\ sc_searched' = sc_searched \cup {sc_i}
    /\ UNCHANGED <<sc_svc, sc_llm, sc_names, sc_result, sc_results, sc_intent_input,
                   sc_response>>
    /\ UNCHANGED nonScVars

\* Tier 2 (S3Agent, IAMAgent): knowledge-base search for one resource
Scan_Tier2 ==
    /\ sc_pc = "tier2"
    /\ \E search \in RagSearchOutcomes :
        IF search.exception # NoneVal
        THEN /\ sc_result' = [exception |-> search.exception, value |-> <<>>]
             /\ sc_pc' = "done"
             /\ UNCHANGED <<sc_findings, sc_t12, sc_i>>
        ELSE /\ sc_findings' = sc_findings
                    \o WithIntent(RagFindings(sc_names[sc_i], search.count),
                                  scan_detect_intent("tier2", sc_i))
             /\ sc_t12' = [sc_t12 EXCEPT ![sc_i] = @ + search.count]
             /\ LoopStep(IF sc_llm THEN "tier3" ELSE "return")
             /\ UNCHANGED sc_result
    /\ sc_used' = sc_used \cup {Classified("tier2", sc_i)}
    /\ sc_intent' = scan_detect_intent("tier2", sc_i)
    /\ sc_searched' = sc_searched \cup {sc_i}
    /\ UNCHANGED <<sc_svc, sc_llm, sc_names, sc_llm_calls, sc_results, sc_intent_input,
                   sc_response>>
    /\ UNCHANGED nonScVars

\* Tier 3 (S3Agent, IAMAgent), entered "if self.llm_analyzer:": one resource
Scan_Tier3 ==
    /\ sc_pc = "tier3"
    /\ IF Tier3Gate(CountFor(sc_findings, sc_names[sc_i]))
       THEN /\ \E response \in LlmResponses :
                /\ sc_findings' = sc_findings
                        \o WithIntent(
                              scan_llm_findings(
                                analyze_security_issues(sc_svc, sc_names[sc_i],
                                                        response)),
                              scan_detect_intent("tier3", sc_i))
                /\ sc_response' = response
            /\ sc_llm_calls' = [sc_llm_calls EXCEPT ![sc_i] = @ + 1]
            /\ sc_used' = sc_used \cup {Classified("tier3", sc_i)}
            /\ sc_intent' = scan_detect_intent("tier3", sc_i)
       ELSE /\ sc_response' = [json |-> FALSE, shape |-> "unasked", findings |-> <<>>]
            /\ UNCHANGED <<sc_findings, sc_llm_calls, sc_used, sc_intent>>
    /\ LoopStep("return")
    /\ UNCHANGED <<sc_svc, sc_llm, sc_names, sc_t12, sc_result, sc_results,
                   sc_intent_input, sc_searched>>
    /\ UNCHANGED nonScVars

\* "findings = self._deduplicate_findings(findings)" (not in EC2Agent) and
\* "return self.executor.format_for_fixer(findings)"
Scan_Return ==
    /\ sc_pc = "return"
    /\ LET fs == IF sc_svc = "ec2" THEN sc_findings
                 ELSE deduplicate_findings(sc_findings)
       IN  /\ sc_findings' = fs
           /\ sc_result' = format_for_fixer(fs)
    /\ sc_pc' = "done"
    /\ UNCHANGED <<sc_svc, sc_llm, sc_names, sc_i, sc_t12, sc_llm_calls, sc_results,
                   sc_intent_input, sc_used, sc_searched,
                   sc_response, sc_intent>>
    /\ UNCHANGED nonScVars

\* Dispatcher.dispatch: "try: results[svc] = agent.scan(...)
\* except Exception: results[svc] = []"
dispatch_results(scan_result) ==
    IF scan_result.exception # NoneVal THEN <<>> ELSE scan_result.value

Dispatch_Scan ==
    /\ sc_pc = "done"
    /\ sc_results' = dispatch_results(sc_result)
    /\ sc_pc' = "dispatched"
    /\ UNCHANGED <<sc_svc, sc_llm, sc_names, sc_i, sc_findings, sc_t12,
                   sc_llm_calls, sc_result, sc_intent_input, sc_used, sc_searched,
                   sc_response, sc_intent>>
    /\ UNCHANGED nonScVars

ScanNext ==
    \/ Scan_Tier1
    \/ Scan_Fallback
    \/ Scan_Tier2
    \/ Scan_Tier3
    \/ Scan_Return
    \/ Dispatch_Scan

SpecScan == ScanInit /\ [][ScanNext]_vars

\* C8: a resource for which Tier 1 and Tier 2 together produced 3 or more
\* findings never has the generative fallback called for it in that scan.
C8_NoFallbackAtThreeFindings ==
    \A i \in DOMAIN sc_t12 : sc_t12[i] >= 3 => sc_llm_calls[i] = 0

\* C8 witness: an S3 scan with the analyzer configured; the first bucket has
\* one rule finding and two knowledge-base findings and is skipped by Tier 3,
\* the second has two findings and is analyzed.
C8_Witness ==
    /\ sc_pc = "done"
    /\ sc_svc = "s3"
    /\ sc_llm
    /\ sc_t12[1] = 3
    /\ sc_llm_calls[1] = 0
    /\ sc_t12[2] = 2
    /\ sc_llm_calls[2] = 1

(***************************************************************************)
(*            THE RULE LOOP, CHECK BY CHECK (ALL FOUR AGENTS)              *)
(***************************************************************************)

MaxRuleResources == 2

\* At most this many checks of one scan find an issue or raise.
MaxRuleEvents == 3

\* A check returns a falsy value, returns a truthy value, or raises.
RuleCheckOutcomes == {"no", "issue", "raise"}

RulesOf(svc) ==
    CASE svc = "s3" -> S3Rules
      [] svc = "ec2" -> EC2Rules
      [] svc = "iam" -> IAMRules
      [] OTHER -> LambdaRules

\* list_buckets / describe_instances / _get_scan_resources / list_functions:
\* IAM resources come with their type, users first.
RuleResources(svc) ==
    LET names == <<"a", "b", "c", "d">>
        type(i) == CASE svc = "s3" -> "bucket"
                     [] svc = "ec2" -> "instance"
                     [] svc = "lambda" -> "function"
                     [] OTHER -> IF i = 1 THEN "user" ELSE "role"
    IN  [i \in 1..MaxRuleResources |-> [name |-> names[i], type |-> type(i)]]

\* Whether the loop calls the rule's check on the resource: analyze skips
\* the ids that contain "intent_conversion"; IAMAgent._call_rule_check
\* returns False for two rules unless the resource is a user.
CheckIsCalled(svc, rule, resource) ==
    CASE svc = "lambda" -> rule.id # "lambda_intent_conversion"
      [] svc = "iam" ->
            rule.id \in {"iam_access_key_rotation", "iam_inactive_user"}
                => resource.type = "user"
      [] OTHER -> TRUE

\* What catches an exception of the check: the except clause of the loop
\* that appends a "rule_error" finding ("loop"), _call_rule_check, which
\* prints and returns False ("call_rule_check"), or the except clause of
\* analyze's loop, which only prints ("print").
CheckHandler(svc, rule) ==
    CASE svc = "s3" -> "loop"
      [] svc = "ec2" -> IF rule.intent_aware THEN "loop" ELSE "call_rule_check"
      [] svc = "iam" -> IF rule.intent_aware THEN "loop" ELSE "call_rule_check"
      [] OTHER -> "print"

\* What one pass of the loop body appends to findings.
CheckFindings(svc, rule, resource, outcome) ==
    IF outcome = "issue"
    THEN << [service |-> svc, resource |-> resource.name, rule_id |-> rule.id,
             issue |-> <<"detection of ", rule.id>>, source |-> "rule"] >>
    ELSE IF outcome = "raise" /\ CheckHandler(svc, rule) = "loop"
    THEN << [service |-> svc, resource |-> resource.name, rule_id |-> rule.id,
             issue |-> <<"Error checking rule ", rule.id>>, auto_safe |-> FALSE,
             source |-> "rule_error"] >>
    ELSE <<>>

\* Where the loops are once the body ran for rule k of resource r: the try
\* is inside "for rule in self.rules", so an exception ends that pass only.
AfterCheckMutRaiseEndsResource(outcome, r, k, nrules, nres) ==
    IF k < nrules /\ outcome # "raise" THEN <<r, k + 1>>
    ELSE IF r < nres THEN <<r + 1, 1>>
    ELSE <<0, 0>>

AfterCheck(outcome, r, k, nrules, nres) ==
    IF k < nrules THEN <<r, k + 1>>
    ELSE IF r < nres THEN <<r + 1, 1>>
    ELSE <<0, 0>>

RulesInit ==
    /\ rl_pc = "rules"
    /\ rl_svc \in {"s3", "ec2", "iam", "lambda"}
    /\ rl_resources = RuleResources(rl_svc)
    /\ rl_pos = <<1, 1>>
    /\ rl_events = 0
    /\ rl_checked = {}
    /\ rl_raised = {}
    /\ rl_findings = <<>>
    /\ rl_cancelled = FALSE
    /\ FxIdle
    /\ IcIdle
    /\ DdIdle
    /\ ScIdle
    /\ PlIdle
    /\ DcIdle
    /\ SnIdle
    /\ OdIdle
    /\ CaIdle

\* One pass of the body of "for rule in self.rules:" (S3Agent.scan 122-217,
\* EC2Agent.scan 111-180, IAMAgent.scan 121-189, LambdaAgent.analyze 127-177)
Rules_Check ==
    /\ rl_pc = "rules"
    /\ LET r == rl_pos[1]
           k == rl_pos[2]
           rule == RulesOf(rl_svc)[k]
           resource == rl_resources[r]
       IN  \E outcome \in RuleCheckOutcomes :
            /\ outcome # "no" => rl_events < MaxRuleEvents
            /\ ~CheckIsCalled(rl_svc, rule, resource) => outcome = "no"
            /\ rl_events' = IF outcome = "no" THEN rl_events ELSE rl_events + 1
            /\ rl_checked' = IF CheckIsCalled(rl_svc, rule, resource)
                             THEN rl_checked \cup {<<r, k>>} ELSE rl_checked
            /\ rl_raised' = IF outcome = "raise"
                            THEN rl_raised \cup {<<r, k>>} ELSE rl_raised
            /\ rl_findings' = rl_findings
                              \o CheckFindings(rl_svc, rule, resource, outcome)
            /\ rl_pos' = AfterCheck(outcome, r, k, Len(RulesOf(rl_svc)),
                                    Len(rl_resources))
            /\ rl_pc' = IF rl_pos' = <<0, 0>> THEN "done" ELSE "rules"
    /\ UNCHANGED <<rl_svc, rl_resources, rl_cancelled>>
    /\ UNCHANGED nonRlVars

\* The caller gives the scan up while it runs: the request is cancelled, or
\* more time has passed than the caller allows.  scan, dispatch and
\* scan_and_fix take no deadline and no cancellation argument, and TIMEOUT
\* of fixer_agent/config.py is imported and never read: nothing of the
\* scan's state changes.
Scan_Cancel ==
    /\ rl_pc = "rules"
    /\ ~rl_cancelled
    /\ rl_cancelled' = TRUE
    /\ UNCHANGED <<rl_pc, rl_svc, rl_resources, rl_pos, rl_events, rl_checked,
                   rl_raised, rl_findings>>
    /\ UNCHANGED nonRlVars

RulesNext ==
    \/ Rules_Check
    \/ Scan_Cancel

SpecRules == RulesInit /\ [][RulesNext]_vars

\* The <<resource, rule>> pairs whose check the loop is to call.
PairsToCheck ==
    { p \in (1..Len(rl_resources)) \X (1..Len(RulesOf(rl_svc))) :
        CheckIsCalled(rl_svc, RulesOf(rl_svc)[p[2]], rl_resources[p[1]]) }

\* The pairs the loops reach after <<r, k>>.
PairsAfter(r, k) ==
    { p \in PairsToCheck : p[1] > r \/ (p[1] = r /\ p[2] > k) }

\* C12: once a rule's check raised on a resource, every remaining rule is
\* still evaluated on that resource and every rule on every later resource:
\* when the loop is over, the check of each of them was called.
C12_RaiseDoesNotStopEvaluation ==
    rl_pc = "done" =>
        \A p \in rl_raised : PairsAfter(p[1], p[2]) \subseteq rl_checked

\* C12 witness: an S3 scan is over, the first rule's check raised on the
\* first bucket, and the findings hold an issue of a later rule on that
\* bucket and one on the second bucket.
C12_Witness ==
    /\ rl_pc = "done"
    /\ rl_svc = "s3"
    /\ <<1, 1>> \in rl_raised
    /\ \E i, j \in DOMAIN rl_findings :
        /\ rl_findings[i].source = "rule"
        /\ rl_findings[i].resource = "a"
        /\ rl_findings[j].source = "rule"
        /\ rl_findings[j].resource = "b"

\* C13: every exception a rule's check raised shows in the output of the scan
\* as a finding of source "rule_error" for that resource and that rule.
C13_EveryRaiseIsARuleErrorFinding ==
    \A p \in rl_raised :
        \E i \in DOMAIN rl_findings :
            /\ rl_findings[i].source = "rule_error"
            /\ rl_findings[i].resource = rl_resources[p[1]].name
            /\ rl_findings[i].rule_id = RulesOf(rl_svc)[p[2]].id

\* The resources of the scan in whose processing nothing failed: no finding
\* of theirs makes format_for_fixer raise, and Tier 2 did not raise on them.
ProcessedWithoutFailure(i) ==
    /\ \A k \in DOMAIN sc_findings :
        sc_findings[k].resource = sc_names[i] => "issue" \in DOMAIN sc_findings[k]
    /\ ~(sc_result.exception = "TypeError" /\ sc_i = i)

\* C14: a failure while one resource is processed is contained: the findings
\* the scan produced for the other resources are in the result the
\* dispatcher records for the service.
C14_FailureIsContained ==
    sc_pc = "dispatched" =>
        \A i \in DOMAIN sc_names, k \in DOMAIN sc_findings :
            (ProcessedWithoutFailure(i) /\ sc_findings[k].resource = sc_names[i]) =>
                \E j \in DOMAIN sc_results :
                    /\ sc_results[j].resource = sc_findings[k].resource
                    /\ sc_results[j].issue = sc_findings[k].issue

(***************************************************************************)
(*        THE SCAN PIPELINE: SupervisorAgent.scan_and_fix, END TO END      *)
(***************************************************************************)

\* EC2Agent.scan on one instance: the intent is detected from the entry of
\* user_intent_input, the rules are applied, and when no rule reported an
\* issue the document search adds its finding.
EC2_scan_findings(instance, user_intent, fired) ==
    LET result == EC2_detect_intent(instance, user_intent, NoLabel)
        IssueFound(rule) ==
            IF rule.id = "ec2_intent_conversion"
            THEN EC2_intent_conflict(instance, result[1])
            ELSE rule.id = fired
        FindingOf(rule) ==
            RuleFinding("ec2", "i-1", rule, result,
                        EC2_should_auto_apply(rule, result[1], result[2],
                                              instance.state))
        fs == RuleFindings(EC2Rules,
                    [i \in 1..Len(EC2Rules) |-> IssueFound(EC2Rules[i])],
                    [i \in 1..Len(EC2Rules) |-> FindingOf(EC2Rules[i])])
    IN  IF HasRuleFinding(fs) THEN fs
        ELSE << [resource |-> "i-1", issue |-> <<"d">>, source |-> "doc_search"] >>

\* S3Agent.scan on one bucket without the analyzer: Tier 1, Tier 2, the
\* deduplication and format_for_fixer.
S3_scan_result(tier1, search) ==
    IF search.exception # NoneVal
    THEN [exception |-> search.exception, value |-> <<>>]
    ELSE format_for_fixer(deduplicate_findings(
            Tier1Findings("a", tier1) \o RagFindings("a", search.count)))

\* What the scan of the service comes to, with the case that led to it.
PipelineScans(svc) ==
    IF svc = "ec2"
    THEN { [case |-> [resource |-> "i-1", user_intent |-> user_intent,
                      result |-> EC2_detect_intent(instance, user_intent, NoLabel),
                      fired |-> fired],
            scan |-> format_for_fixer(EC2_scan_findings(instance, user_intent, fired))] :
            instance \in EC2Instances, user_intent \in Labels.ec2,
            fired \in {"none"} \cup StandardIds(EC2Rules) }
    ELSE { [case |-> [resource |-> "a", user_intent |-> NoLabel,
                      result |-> <<"unknown", 0, "none">>, fired |-> "none"],
            scan |-> S3_scan_result(tier1, search)] :
            tier1 \in Tier1Outcomes("s3"), search \in RagSearchOutcomes }

\* scan_and_fix, lines 66-77 and 91-104: the dict it returns.  With the
\* dispatcher's dict _generate_solutions meets the single key "findings",
\* whose value is no list, and hands the dict back as it is.
Report(found, applied, pending) ==
    LET lists == found.findings
        all == { <<s, k>> \in (DOMAIN lists) \X (1..MaxFindings + 8) : k \in DOMAIN lists[s] }
    IN  [findings |-> found,
         auto_fixes_applied |-> applied,
         pending_fixes |-> pending,
         summary |->
            [total_findings |-> Cardinality(all),
             auto_fixable |-> Cardinality({ p \in all :
                                Get(lists[p[1]][p[2]], "auto_safe", FALSE)
                                \/ Get(lists[p[1]][p[2]], "can_auto_fix", FALSE) }),
             fixes_applied |-> Len(applied),
             pending_manual |-> Len(pending)]]

HasCredsMutAlways(creds) ==
    TRUE

\* self.creds is None or the dict assume_role returned
HasCreds(creds) ==
    creds # NoneVal

\* apply_specific_fix: the fix types it knows call the executor and return
\* its success; any other raises ValueError inside the try and comes back
\* as success False.
ManualFixTypes ==
    {"public_access_block", "index_document", "disable_website_hosting",
     "enable_website_hosting", "enable_public_access", "adjust_timeout",
     "adjust_memory", "enable_logging"}

apply_specific_fix(fix_type, ok) ==
    IF fix_type \in ManualFixTypes
    THEN [fix_type |-> fix_type, executed |-> TRUE, success |-> ok]
    ELSE [fix_type |-> fix_type, executed |-> FALSE, success |-> FALSE]

\* SupervisorAgent.__init__: self.creds = None.  auto_fix is the default of
\* data.get('auto_fix', True) until a request sets it.
PipelineInit ==
    /\ pl_pc = "new"
    /\ pl_creds = NoneVal
    /\ pl_auto_fix = TRUE
    /\ pl_raised = NoneVal
    /\ pl_manual = <<>>
    /\ pl_svc \in {"s3", "ec2"}
    /\ pl_case = <<>>
    /\ pl_scan = <<>>
    /\ pl_findings = <<>>
    /\ pl_report = <<>>
    /\ FxIdle
    /\ IcIdle
    /\ DdIdle
    /\ ScIdle
    /\ RlIdle
    /\ DcIdle
    /\ SnIdle
    /\ OdIdle
    /\ CaIdle

\* scan_and_fix, lines 43-53: dispatcher.dispatch(service=...), which calls
\* the agent's scan inside its try and returns {"findings": results}
Pipeline_Dispatch ==
    /\ pl_pc = "new"
    /\ HasCreds(pl_creds)
    /\ pl_auto_fix' \in BOOLEAN
    /\ \E s \in PipelineScans(pl_svc) :
        /\ pl_case' = s.case
        /\ pl_scan' = s.scan
        /\ pl_findings' = [findings |-> [svc \in {pl_svc} |-> dispatch_results(s.scan)]]
    /\ pl_pc' = "apply"
    /\ UNCHANGED <<pl_svc, pl_report, pl_creds, pl_raised, pl_manual>>
    /\ UNCHANGED nonPlVars

\* scan_and_fix, lines 82-83: FixerAgent(self.creds).apply(findings) is
\* called with the dispatcher's dict
Pipeline_Apply ==
    /\ pl_pc = "apply"
    /\ fx_pc = "idle"
    /\ fx_input' = [shape |-> "wrapped", items |-> pl_findings.findings[pl_svc]]
    /\ fx_clients' \in BOOLEAN
    /\ fx_calls' = [k \in 1..MaxFindings |-> 0]
    /\ fx_oks' = [k \in 1..MaxFindings |-> 0]
    /\ fx_pc' = "start"
    /\ UNCHANGED <<findings, fx_i, attempt, fx_after_ok, fx_last_err, fx_step_errs,
                   applied_fixes, pending_fixes>>
    /\ UNCHANGED nonFxVars

\* scan_and_fix, lines 91-104: the findings go through _generate_solutions
\* and the report is returned
Pipeline_Report ==
    /\ pl_pc = "apply"
    /\ fx_pc = "done"
    /\ pl_report' = Report(pl_findings, applied_fixes, pending_fixes)
    /\ pl_pc' = "done"
    /\ UNCHANGED <<pl_svc, pl_case, pl_scan, pl_findings,
                   pl_creds, pl_auto_fix, pl_raised, pl_manual>>
    /\ UNCHANGED nonPlVars

\* assume, lines 22-25: assume_role either returns the credentials, which
\* are stored, or raises and leaves self.creds as it was.
Supervisor_assume ==
    /\ pl_pc = "new"
    /\ \E ok \in BOOLEAN :
        pl_creds' = IF ok THEN "creds" ELSE pl_creds
    /\ UNCHANGED <<pl_pc, pl_svc, pl_case, pl_scan, pl_findings, pl_report,
                   pl_auto_fix, pl_raised, pl_manual>>
    /\ UNCHANGED nonPlVars

\* scan_and_fix line 41-42 and apply_manual_fix lines 167-168: without
\* credentials the method raises RuntimeError as its first statement.
Supervisor_Raise ==
    /\ pl_pc = "new"
    /\ ~HasCreds(pl_creds)
    /\ pl_raised' \in {"scan_and_fix", "apply_manual_fix"}
    /\ pl_pc' = "raised"
    /\ UNCHANGED <<pl_svc, pl_case, pl_scan, pl_findings, pl_report,
                   pl_creds, pl_auto_fix, pl_manual>>
    /\ UNCHANGED nonPlVars

\* apply_manual_fix, lines 170-173: with credentials the fixer's
\* apply_specific_fix is called and its dict returned.
Supervisor_apply_manual_fix ==
    /\ pl_pc = "new"
    /\ HasCreds(pl_creds)
    /\ \E fix_type \in ManualFixTypes \cup {"other"}, ok \in BOOLEAN :
        pl_manual' = apply_specific_fix(fix_type, ok)
    /\ pl_pc' = "manual"
    /\ UNCHANGED <<pl_svc, pl_case, pl_scan, pl_findings, pl_report,
                   pl_creds, pl_auto_fix, pl_raised>>
    /\ UNCHANGED nonPlVars

\* Of apply's steps only the flattening and the return can be taken: the
\* list apply loops over is empty (PipelineApplyListIsEmpty).
PipelineNext ==
    \/ Supervisor_assume
    \/ Supervisor_Raise
    \/ Supervisor_apply_manual_fix
    \/ Pipeline_Dispatch
    \/ Pipeline_Apply
    \/ Apply_Flatten
    \/ Apply_Return
    \/ Pipeline_Report

SpecPipeline == PipelineInit /\ [][PipelineNext]_vars

PipelineApplyListIsEmpty ==
    findings = <<>>

\* The report of a scan that went through and found nothing.
CleanReport ==
    Report([findings |-> [svc \in {pl_svc} |-> <<>>]], <<>>, <<>>)

\* C15: the scan returns a report, and a failure of a stage after the
\* resource listing shows in it: the report is not the one of a scan that
\* went through and found nothing.
C15_LaterFailureShowsInReport ==
    pl_pc = "done" =>
        /\ DOMAIN pl_report = {"findings", "auto_fixes_applied", "pending_fixes", "summary"}
        /\ pl_scan.exception # NoneVal => pl_report # CleanReport

\* The findings and the two lists of the report that name the resource.
ReportFindings(resource) ==
    SelectSeq(pl_report.findings.findings[pl_svc], LAMBDA f : f.resource = resource)

ReportPending(resource) ==
    SelectSeq(pl_report.pending_fixes, LAMBDA f : f.resource = resource)

ReportApplied(resource) ==
    SelectSeq(pl_report.auto_fixes_applied, LAMBDA f : f.resource = resource)

\* C16: an instance with the explicit intent of a web server on which the
\* open security group rule fires: the report holds the finding with
\* auto_safe false, holds it in the pending list, and holds no applied entry
\* for the instance.
C16_WebServerOpenGroupIsPending ==
    (/\ pl_pc = "done"
     /\ pl_svc = "ec2"
     /\ LabelGiven(pl_case.user_intent)
     /\ pl_case.result[1] = "web_server"
     /\ pl_case.result[2] = 100
     /\ pl_case.fired = "ec2_open_security_group") =>
        LET issue == <<"detection of ", "ec2_open_security_group">>
        IN  /\ \E k \in DOMAIN ReportFindings("i-1") :
                /\ ReportFindings("i-1")[k].issue = issue
                /\ ReportFindings("i-1")[k].auto_safe = FALSE
            /\ \E k \in DOMAIN ReportPending("i-1") :
                ReportPending("i-1")[k].issue = issue
            /\ ReportApplied("i-1") = <<>>

\* C17: an instance without explicit intent, whose inferred intent has a
\* confidence below 1.0 and no row for the rule in _should_auto_apply, on
\* which the missing backups rule (auto-safe by default) fires: the report
\* holds the finding with auto_safe true and, the fixer's clients being
\* there, exactly one outcome for the instance, of status "applied".
C17_InferredIntentDefaultSafeIsApplied ==
    (/\ pl_pc = "done"
     /\ pl_svc = "ec2"
     /\ ~LabelGiven(pl_case.user_intent)
     /\ pl_case.result[2] < 100
     /\ pl_case.result[1] \notin {"database_server", "unknown"}
     /\ pl_case.fired = "ec2_missing_backups"
     /\ fx_clients) =>
        LET issue == <<"detection of ", "ec2_missing_backups">>
        IN  /\ \E k \in DOMAIN ReportFindings("i-1") :
                /\ ReportFindings("i-1")[k].issue = issue
                /\ ReportFindings("i-1")[k].auto_safe = TRUE
            /\ Len(ReportApplied("i-1")) = 1
            /\ ReportApplied("i-1")[1].status = "applied"

(***************************************************************************)
(*     THE SAFETY CLASSIFIER CALLED TWICE WITH THE SAME INPUTS             *)
(* _should_auto_apply reads the confidence and the risk score from         *)
(* attributes of the rule object, which the scan loop and the rule's check *)
(* write for the resource at hand.  One scan decides for a resource, goes  *)
(* through another resource, and decides for a resource of the same        *)
(* intent, confidence and state again.                                     *)
(***************************************************************************)

DecideConfidences == {30, 85, 100}

\* Risk scores of _calculate_risk_score, on both sides of the threshold 20.
DecideRiskScores == {10, 60}

DecideIntents(svc) ==
    CASE svc = "s3" -> {"website_hosting", "data_storage", "backup_storage",
                        "cdn_origin", "unknown"}
      [] svc = "ec2" -> {"web_server", "database_server", "development_testing",
                         "bastion_host", "application_server", "unknown"}
      [] OTHER -> {"least_privilege", "strong_security", "service_account",
                   "developer_flexibility", "compliance", "admin_access", "unknown"}

\* The resource state the decision looks at: the state of an instance, the
\* risk score the least privilege check computed for an IAM entity.
DecideStates(svc) ==
    CASE svc = "ec2" -> {"running", "stopped"}
      [] svc = "iam" -> DecideRiskScores
      [] OTHER -> {NoneVal}

DecideInputs ==
    UNION { [svc : {svc}, rule : { RulesOf(svc)[k] : k \in DOMAIN RulesOf(svc) },
             intent : DecideIntents(svc), confidence : DecideConfidences,
             state : DecideStates(svc)] : svc \in {"s3", "ec2", "iam"} }

RuleAttributes ==
    [intent_confidence : {0} \cup DecideConfidences,
     risk_score : {0} \cup DecideRiskScores]

\* "if rule.id in [...]: rule.intent_confidence = confidence" of the scan
\* loops, and "self.risk_score = ..." of LeastPrivilegeRule.check: the
\* attributes after the pass for a resource reached the rule.
AttributesAfterCheck(attrs, input) ==
    [intent_confidence |->
        IF input.rule.id \in {"s3_website_hosting", "s3_intent_conversion",
                              "ec2_intent_conversion", "iam_intent_conversion"}
        THEN input.confidence ELSE attrs.intent_confidence,
     risk_score |->
        IF input.rule.id = "iam_least_privilege"
        THEN input.state ELSE attrs.risk_score]

\* _should_auto_apply of the agent, with the attributes it reads.
should_auto_apply(input, before, after) ==
    LET rule_confidence ==
            RuleConfidenceAtCheck(before.intent_confidence, after.intent_confidence)
    IN  CASE input.svc = "s3" ->
                S3_should_auto_apply(input.rule, input.intent, rule_confidence)
          [] input.svc = "ec2" ->
                EC2_should_auto_apply(input.rule, input.intent, rule_confidence,
                                      input.state)
          [] OTHER ->
                IAM_should_auto_apply(input.rule, input.intent, rule_confidence,
                                      after.risk_score)

DecideInit ==
    /\ dc_pc = "first"
    /\ dc_input \in DecideInputs
    /\ dc_attrs = [intent_confidence |-> 0, risk_score |-> 0]
    /\ dc_other = <<>>
    /\ dc_decisions = <<>>
    /\ FxIdle
    /\ IcIdle
    /\ DdIdle
    /\ ScIdle
    /\ RlIdle
    /\ PlIdle
    /\ SnIdle
    /\ OdIdle
    /\ CaIdle

\* The pass of the rule loop for a resource with the inputs dc_input, that
\* found an issue: attributes written, decision taken (S3Agent.scan 124-136)
Decide_Pass ==
    /\ dc_pc \in {"first", "second"}
    /\ LET after == AttributesAfterCheck(dc_attrs, dc_input)
       IN  /\ dc_attrs' = after
           /\ dc_decisions' = Append(dc_decisions,
                                     should_auto_apply(dc_input, dc_attrs, after))
    /\ dc_pc' = IF dc_pc = "first" THEN "between" ELSE "done"
    /\ UNCHANGED <<dc_input, dc_other>>
    /\ UNCHANGED nonDcVars

\* The pass for another resource in between leaves its own confidence and
\* risk score on the rule.
Decide_OtherResource ==
    /\ dc_pc = "between"
    /\ \E attrs \in RuleAttributes :
        /\ dc_attrs' = attrs
        /\ dc_other' = attrs
    /\ dc_pc' = "second"
    /\ UNCHANGED <<dc_input, dc_decisions>>
    /\ UNCHANGED nonDcVars

DecideNext ==
    \/ Decide_Pass
    \/ Decide_OtherResource

SpecDecide == DecideInit /\ [][DecideNext]_vars

\* C18: the safety decision is a function of its inputs (rule, intent,
\* confidence, resource state): taken twice for the same inputs in one scan,
\* it is the same boolean both times.
C18_SameInputsSameDecision ==
    dc_pc = "done" => dc_decisions[1] = dc_decisions[2]

\* C18 witness: the website hosting rule on a website bucket of explicit
\* intent is decided auto-safe twice, although a bucket of confidence 0.3
\* left its confidence on the rule in between.
C18_Witness ==
    /\ dc_pc = "done"
    /\ dc_input.rule.id = "s3_website_hosting"
    /\ dc_input.intent = "website_hosting"
    /\ dc_input.confidence = 100
    /\ dc_other.intent_confidence = 30
    /\ dc_decisions = <<TRUE, TRUE>>

(***************************************************************************)
(* The explicit intent of a resource, stage by stage                       *)
(***************************************************************************)

\* The entry of user_intent_input for the resource when it has one, else the
\* entry "_global_intent", else None.
OwnElseGlobal(user_intent_input, name) ==
    IF name \in DOMAIN user_intent_input THEN user_intent_input[name]
    ELSE Get(user_intent_input, "_global_intent", NoneVal)

\* C19: in every stage of a scan that classifies a resource's intent, the
\* explicit intent used is the resource's own entry of the explicit intent
\* map when it has one and otherwise the global entry.
C19_ExplicitIntentIsOwnElseGlobal ==
    \A u \in sc_used :
        u[3] = OwnElseGlobal(sc_intent_input, sc_names[u[2]])

\* The stages other than the document-search loop do use it.
TiersUseOwnElseGlobal ==
    \A u \in sc_used :
        u[1] # "fallback" => u[3] = OwnElseGlobal(sc_intent_input, sc_names[u[2]])

(***************************************************************************)
(*                        CONFIGURATION READS                              *)
(* What S3Agent.scan and LambdaAgent.analyze read of one resource, stage   *)
(* by stage: rule checks are given the client, Tier 2 and Tier 3 each call *)
(* _get_bucket_config / _get_function_config.                              *)
(***************************************************************************)

\* The configurations the resource can have at the service.
ConfigValues == {"c1", "c2", "c3"}

\* _get_bucket_config / _get_function_config: every key is filled by a call
\* of the client, so the dict returned is the configuration at that moment.
get_config(live) ==
    live

SnapshotInit ==
    /\ sn_pc = "tier1"
    /\ sn_svc \in {"s3", "lambda"}
    /\ sn_llm \in BOOLEAN
    /\ sn_live \in ConfigValues
    /\ sn_rule = 1
    /\ sn_count = 0
    /\ sn_seen = {}
    /\ FxIdle
    /\ IcIdle
    /\ DdIdle
    /\ ScIdle
    /\ RlIdle
    /\ PlIdle
    /\ DcIdle
    /\ OdIdle
    /\ CaIdle

\* Tier 1, one rule: "rule.check(self.client, name)" asks the service itself.
Snapshot_Rule ==
    /\ sn_pc = "tier1"
    /\ LET rule == RulesOf(sn_svc)[sn_rule]
       IN  IF CheckIsCalled(sn_svc, rule, RuleResources(sn_svc)[1])
           THEN /\ sn_seen' = sn_seen \cup {<<"tier1", sn_live>>}
                /\ \E issue_found \in BOOLEAN :
                    sn_count' = IF issue_found THEN sn_count + 1 ELSE sn_count
           ELSE UNCHANGED <<sn_seen, sn_count>>
    /\ IF sn_rule < Len(RulesOf(sn_svc))
       THEN sn_rule' = sn_rule + 1 /\ UNCHANGED sn_pc
       ELSE sn_rule' = 1 /\ sn_pc' = "tier2"
    /\ UNCHANGED <<sn_svc, sn_llm, sn_live>>
    /\ UNCHANGED nonSnVars

\* Tier 2: "bucket_config = self._get_bucket_config(bucket_name)", then the
\* knowledge-base search on it.
Snapshot_Tier2 ==
    /\ sn_pc = "tier2"
    /\ sn_seen' = sn_seen \cup {<<"tier2", get_config(sn_live)>>}
    /\ \E n \in RagCounts : sn_count' = sn_count + n
    /\ sn_pc' = IF sn_llm THEN "tier3" ELSE "done"
    /\ UNCHANGED <<sn_svc, sn_llm, sn_live, sn_rule>>
    /\ UNCHANGED nonSnVars

\* Tier 3: "if len(bucket_findings) < 3:" the configuration is collected
\* again for the prompt.
Snapshot_Tier3 ==
    /\ sn_pc = "tier3"
    /\ sn_seen' = IF Tier3Gate(sn_count)
                  THEN sn_seen \cup {<<"tier3", get_config(sn_live)>>}
                  ELSE sn_seen
    /\ sn_pc' = "done"
    /\ UNCHANGED <<sn_svc, sn_llm, sn_live, sn_rule, sn_count>>
    /\ UNCHANGED nonSnVars

\* The account is live: the resource is reconfigured while the scan runs.
Config_Change ==
    /\ sn_pc \in {"tier1", "tier2", "tier3"}
    /\ sn_live' \in ConfigValues \ {sn_live}
    /\ UNCHANGED <<sn_pc, sn_svc, sn_llm, sn_rule, sn_count, sn_seen>>
    /\ UNCHANGED nonSnVars

SnapshotNext ==
    \/ Snapshot_Rule
    \/ Snapshot_Tier2
    \/ Snapshot_Tier3
    \/ Config_Change

SpecSnapshot == SnapshotInit /\ [][SnapshotNext]_vars

\* C20: within one scan every tier (and the safety decision, taken in Tier 1
\* from what the rule check read) observes the same configuration of the
\* resource: it is never read afresh in mid-pipeline.
C20_OneSnapshotPerScan ==
    \A s, t \in sn_seen : s[2] = t[2]

\* Each configuration a stage is given is the one the service had at the
\* moment of that stage.
StagesReadTheLiveConfiguration ==
    [][\A s \in sn_seen' \ sn_seen : s[2] = sn_live]_vars

(***************************************************************************)
(* The knowledge search, resource by resource                              *)
(***************************************************************************)

\* scan returned its list (it did not leave with an exception).
ScanReturned ==
    /\ sc_pc \in {"done", "dispatched"}
    /\ sc_result.exception = NoneVal

\* C21: the knowledge search (Tier 2) runs for every resource of every scan,
\* whatever Tier 1 found for it or for another resource.
C21_KnowledgeSearchForEveryResource ==
    ScanReturned => \A i \in DOMAIN sc_names : i \in sc_searched

\* S3Agent and IAMAgent do search for every resource.
S3AndIAMSearchEveryResource ==
    (ScanReturned /\ sc_svc # "ec2") => \A i \in DOMAIN sc_names : i \in sc_searched

(***************************************************************************)
(* A generative answer that is not of the expected structure               *)
(***************************************************************************)

\* The answer was asked for and is not a JSON object whose findings all have
\* their issue.
Malformed(response) ==
    /\ response.shape # "unasked"
    /\ \/ ~response.json
       \/ response.shape # "dict"
       \/ \E k \in DOMAIN response.findings : ~response.findings[k].has_issue

ConfigFetchFailed ==
    CASE ic_svc = "s3" -> ~ic_res.website /\ ic_res.objects = "error"
      [] ic_svc = "ec2" -> ~ic_res.described
      [] ic_svc = "lambda" -> ~ic_res.config_ok
      [] OTHER -> FALSE

\* detect_intent returned and had come to the automatic detection: neither
\* the explicit label nor the description settled the intent.
AutoDetected ==
    /\ ic_pc \in {"rules", "next"}
    /\ Len(ic_result) = 3
    /\ ic_result[3] \notin {"explicit", "description"}

\* C23: when fetching the configuration of the resource fails, intent
\* detection does not raise and returns (unknown, 0.0, error message).
C23_FetchFailureGivesUnknown ==
    (AutoDetected /\ ConfigFetchFailed) => ic_result = <<"unknown", 0, "error">>

\* EC2 and Lambda do return it.
EC2AndLambdaFetchFailureGivesUnknown ==
    (AutoDetected /\ ConfigFetchFailed /\ ic_svc # "s3")
        => ic_result = <<"unknown", 0, "error">>

(***************************************************************************)
(* A scan that is cancelled                                                *)
(***************************************************************************)

\* C24: once a scan is cancelled or has timed out, no pipeline is started
\* for a further resource (a remediation in flight may run to its end).
C24_NoNewPipelineAfterCancel ==
    [][(rl_cancelled /\ rl_pc' = "rules") => rl_pos'[1] = rl_pos[1]]_vars

(***************************************************************************)
(*                  ONE BUCKET, ALONE AND AMONG OTHERS                     *)
(* S3Agent keeps one object per rule for all buckets of a scan.            *)
(* VersioningRule.check_with_intent assigns self.fix_instructions when the *)
(* bucket is a website; the finding of a later bucket reads the attribute. *)
(***************************************************************************)

\* Buckets as the versioning rule sees them: the intent detected and
\* whether get_bucket_versioning says "Enabled".
OrderBuckets(name) ==
    [name : {name},
     intent : {"data_storage", "website_hosting", "log_storage"},
     versioned : BOOLEAN]

\* VersioningRule.check
VersioningRule_check(bucket) ==
    ~bucket.versioned

\* VersioningRule.check_with_intent: what it returns and the attribute
\* fix_instructions of the rule object afterwards.
VersioningRule_check_with_intent(fix_instructions, bucket) ==
    IF bucket.intent \in {"data_storage", "backup_storage", "data_archival"}
    THEN [issue_found |-> VersioningRule_check(bucket),
          fix_instructions |-> fix_instructions]
    ELSE IF bucket.intent = "website_hosting" /\ VersioningRule_check(bucket)
    THEN [issue_found |-> TRUE, fix_instructions |-> "website"]
    ELSE [issue_found |-> FALSE, fix_instructions |-> fix_instructions]

\* S3Agent.scan, the finding of the versioning rule for one bucket
VersioningFinding(bucket, fix_instructions) ==
    [resource |-> bucket.name, rule_id |-> "s3_versioning_disabled",
     intent |-> bucket.intent,
     auto_safe |-> S3_should_auto_apply(S3Rules[4], bucket.intent, 0),
     fix_instructions |-> fix_instructions,
     fix_type |-> "enable_versioning_manual"]

NewScan(buckets) ==
    [buckets |-> buckets, i |-> 1, fix_instructions |-> "default", findings |-> <<>>]

OrderInit ==
    /\ od_pc = "scan"
    /\ od_target \in OrderBuckets("b")
    /\ \E other \in OrderBuckets("a") :
        \E together \in {<<other, od_target>>, <<od_target, other>>} :
            od_scans = <<NewScan(<<od_target>>), NewScan(together)>>
    /\ FxIdle
    /\ IcIdle
    /\ DdIdle
    /\ ScIdle
    /\ RlIdle
    /\ PlIdle
    /\ DcIdle
    /\ SnIdle
    /\ CaIdle

\* One pass of "for bucket in buckets:" in one of the two scans, for the
\* versioning rule.
Order_Check ==
    /\ od_pc = "scan"
    /\ \E s \in DOMAIN od_scans :
        LET scan == od_scans[s]
            bucket == scan.buckets[scan.i]
            checked == VersioningRule_check_with_intent(scan.fix_instructions, bucket)
            after == [scan EXCEPT
                        !.i = @ + 1,
                        !.fix_instructions = checked.fix_instructions,
                        !.findings = IF checked.issue_found
                                     THEN Append(@, VersioningFinding(bucket,
                                                      checked.fix_instructions))
                                     ELSE @]
        IN  /\ scan.i <= Len(scan.buckets)
            /\ od_scans' = [od_scans EXCEPT ![s] = after]
            /\ od_pc' = IF \A t \in DOMAIN od_scans :
                              od_scans'[t].i > Len(od_scans'[t].buckets)
                        THEN "done" ELSE "scan"
    /\ UNCHANGED od_target
    /\ UNCHANGED nonOdVars

OrderNext ==
    Order_Check

SpecOrder == OrderInit /\ [][OrderNext]_vars

\* [f for f in findings if f["resource"] == name]
FindingsOf(fs, name) ==
    LET Mine(f) == f.resource = name
    IN  SelectSeq(fs, Mine)

\* C25: what the pipeline returns for a resource (its findings with their
\* intent, auto_safe, fix instructions and fix type) is the same whichever
\* other resources are in the scan and in whatever order they are processed.
C25_ResultIndependentOfOtherResources ==
    od_pc = "done" =>
        FindingsOf(od_scans[1].findings, od_target.name)
            = FindingsOf(od_scans[2].findings, od_target.name)

\* Intent and auto_safe of the bucket's findings do not depend on the others.
IntentAndAutoSafeIndependent ==
    od_pc = "done" =>
        LET alone == FindingsOf(od_scans[1].findings, od_target.name)
            among == FindingsOf(od_scans[2].findings, od_target.name)
        IN  /\ Len(alone) = Len(among)
            /\ \A k \in DOMAIN alone :
                /\ alone[k].intent = among[k].intent
                /\ alone[k].auto_safe = among[k].auto_safe
                /\ alone[k].fix_type = among[k].fix_type

(***************************************************************************)
(* The report accounts for every finding                                   *)
(***************************************************************************)

\* Entries of a list of the report for one finding.
EntriesFor(entries, f) ==
    { k \in DOMAIN entries :
        entries[k].resource = f.resource /\ entries[k].issue = f.issue }

\* C26: in the report of a scan every finding of the finding list is in
\* auto_fixes_applied when it is auto-safe and in pending_fixes otherwise,
\* so fixes_applied + pending_manual = total_findings.
C26_EveryFindingAccountedFor ==
    pl_pc = "done" =>
        LET fs == pl_report.findings.findings[pl_svc]
        IN  /\ \A k \in DOMAIN fs :
                IF Get(fs[k], "auto_safe", FALSE)
                THEN EntriesFor(pl_report.auto_fixes_applied, fs[k]) # {}
                ELSE EntriesFor(pl_report.pending_fixes, fs[k]) # {}
            /\ pl_report.summary.fixes_applied + pl_report.summary.pending_manual
                    = pl_report.summary.total_findings

\* total_findings itself is the length of the finding list.
TotalFindingsCountsTheList ==
    pl_pc = "done" =>
        pl_report.summary.total_findings = Len(pl_report.findings.findings[pl_svc])

(***************************************************************************)
(* The list a scan returns holds no finding twice                          *)
(***************************************************************************)

\* The finding is about the resource of that name: Tier 1 and Tier 2 write
\* the name, Tier 3 writes "<service>://<name>".
RefersTo(f, name) ==
    f.resource \in {name, sc_svc \o "://" \o name}

\* C27: the finding list a scan returns holds no two findings of the same
\* resource with the same normalized issue, whichever tiers produced them.
C27_NoFindingTwiceInScanResult ==
    ScanReturned =>
        \A i, j \in DOMAIN sc_result.value :
            \A r \in DOMAIN sc_names :
                (/\ i # j
                 /\ RefersTo(sc_result.value[i], sc_names[r])
                 /\ RefersTo(sc_result.value[j], sc_names[r]))
                    => Strip(Lower(sc_result.value[i].issue))
                        # Strip(Lower(sc_result.value[j].issue))

\* Findings that name the resource the same way are not returned twice by
\* S3Agent and IAMAgent.
NoFindingTwiceUnderOneName ==
    (ScanReturned /\ sc_svc # "ec2") =>
        \A i, j \in DOMAIN sc_result.value :
            (i # j /\ sc_result.value[i].resource = sc_result.value[j].resource)
                => Strip(Lower(sc_result.value[i].issue))
                    # Strip(Lower(sc_result.value[j].issue))

(***************************************************************************)
(* What the deduplication may merge                                        *)
(***************************************************************************)

\* (resourceType, resourceId) of a finding; only IAM findings carry a type.
ResourceRef(x) ==
    <<Get(x, "resource_type", "none"), Get(x, "resource", "")>>

\* The normalized issue of a finding; a knowledge-base finding has no
\* "issue", what it reports is its document.
IssueOf(x) ==
    IF "issue" \in DOMAIN x THEN <<"issue", Strip(Lower(x.issue))>>
    ELSE <<"doc_id", x.doc_id>>

Retained(x) ==
    \E k \in DOMAIN dd_result : dd_result[k] = x

\* C28: a finding is dropped only if a retained finding has the same
\* ResourceRef and the same normalized issue: findings about different
\* resources, or different issues of one resource, are never merged.
C28_DropsOnlySameResourceAndIssue ==
    dd_pc = "done" =>
        \A i \in DOMAIN dd_input :
            ~Retained(dd_input[i]) =>
                \E k \in DOMAIN dd_result :
                    /\ ResourceRef(dd_result[k]) = ResourceRef(dd_input[i])
                    /\ IssueOf(dd_result[k]) = IssueOf(dd_input[i])

\* Among findings that have an issue and no resource type it is so.
DropsOnlySameKey ==
    dd_pc = "done" =>
        \A i \in DOMAIN dd_input :
            ~Retained(dd_input[i]) =>
                \E k \in DOMAIN dd_result : DedupKey(dd_result[k]) = DedupKey(dd_input[i])

(***************************************************************************)
(*     THE OVERRIDE TABLE AND THE RULE'S DEFAULT                           *)
(* The rows of the override table are the branches of _should_auto_apply   *)
(* on (intent, rule.id).  The decision for the rule and intent at hand is  *)
(* taken again for every confidence, every resource state and both values  *)
(* of the rule's default flag.                                             *)
(***************************************************************************)

\* _should_auto_apply for the rule and intent of the input, with the given
\* confidence, resource state and default flag of the rule.
DecisionWith(input, confidence, state, auto_safe) ==
    should_auto_apply(
        [input EXCEPT !.rule = [input.rule EXCEPT !.auto_safe = auto_safe],
                      !.state = state],
        [intent_confidence |-> 0, risk_score |-> 0],
        [intent_confidence |-> confidence,
         risk_score |-> IF input.svc = "iam" THEN state ELSE 0])

IntentConflictRule(rule) ==
    rule.id \in {"s3_intent_conversion", "ec2_intent_conversion",
                 "iam_intent_conversion"}

\* The table has a row for (rule.id, intent) and the decision is the row:
\* the value decided is decided whatever the default flag (and the
\* confidence and the state, which are not part of the key).
DecisionIsRow(input, decision) ==
    \A confidence \in DecideConfidences, state \in DecideStates(input.svc),
       auto_safe \in BOOLEAN :
        DecisionWith(input, confidence, state, auto_safe) = decision

\* No row matches (rule.id, intent): the decision is the default flag.
DecisionIsDefault(input) ==
    \A confidence \in DecideConfidences, state \in DecideStates(input.svc),
       auto_safe \in BOOLEAN :
        DecisionWith(input, confidence, state, auto_safe) = auto_safe

\* The pairs whose branch in the code looks further than (rule.id, intent):
\* S3's website hosting rule on a website bucket (s3_agent.py 348-360) and
\* IAM's least privilege rule under least privilege intent (risk score).
ConditionalRow(input) ==
    \/ input.svc = "s3" /\ input.intent = "website_hosting"
                        /\ input.rule.id = "s3_website_hosting"
    \/ input.svc = "iam" /\ input.intent = "least_privilege"
                         /\ input.rule.id = "iam_least_privilege"

\* C29: for a rule that is not the intent-conflict rule, either the override
\* table has a row for (ruleId, intent) and the decision equals that row
\* regardless of the rule's default flag, or no row matches and the decision
\* equals the rule's declared default flag.
C29_RowOrDefault ==
    (Len(dc_decisions) >= 1 /\ ~IntentConflictRule(dc_input.rule))
        => \/ DecisionIsRow(dc_input, dc_decisions[1])
           \/ DecisionIsDefault(dc_input)

\* What holds: everywhere but on the two pairs with a conditional branch the
\* decision is a row of the table or the rule's default.
RowOrDefaultButConditionalRows ==
    (/\ Len(dc_decisions) >= 1
     /\ ~IntentConflictRule(dc_input.rule)
     /\ ~ConditionalRow(dc_input))
        => \/ DecisionIsRow(dc_input, dc_decisions[1])
           \/ DecisionIsDefault(dc_input)

\* Both cases are reached: a row that overrides the default (public access
\* block on a website bucket, default TRUE, decided FALSE) ...
RowOverridesDefault ==
    /\ Len(dc_decisions) >= 1
    /\ dc_input.rule.id = "s3_public_access_block"
    /\ dc_input.intent = "website_hosting"
    /\ dc_input.rule.auto_safe
    /\ ~dc_decisions[1]
    /\ DecisionIsRow(dc_input, FALSE)
    /\ ~DecisionIsDefault(dc_input)

\* ... and a pair without a row (encryption rule on a CDN origin).
NoRowGivesDefault ==
    /\ Len(dc_decisions) >= 1
    /\ dc_input.rule.id = "s3_unencrypted_bucket"
    /\ dc_input.intent = "cdn_origin"
    /\ dc_decisions[1] = dc_input.rule.auto_safe
    /\ DecisionIsDefault(dc_input)
    /\ ~DecisionIsRow(dc_input, TRUE)

(***************************************************************************)
(*     WHERE THE AUTO-SAFE FLAG OF A TIER 1 FINDING COMES FROM             *)
(***************************************************************************)

\* The rule loop for the resource at hand has run.
RulesApplied ==
    ic_pc = "next" /\ ic_mode = "scan"

\* The k-th finding carries what the k-th call of the safety decision
\* returned for its rule.
PassedThroughDecision(k) ==
    /\ k <= Len(ic_decided)
    /\ ic_decided[k].rule_id = ic_findings[k].rule_id
    /\ ic_decided[k].auto_safe = ic_findings[k].auto_safe

\* C30: for every resource type, the auto_safe value of every Tier 1 finding
\* is the output of the safety decision for its rule, the intent and the
\* confidence; it is never the rule's default flag copied without a call of
\* that decision.
C30_AutoSafeIsDecided ==
    RulesApplied => \A k \in 1..Len(ic_findings) : PassedThroughDecision(k)

\* What holds: the findings of the S3, EC2 and IAM agents carry the decision.
S3EC2IAMAutoSafeIsDecided ==
    (RulesApplied /\ ic_svc # "lambda")
        => \A k \in 1..Len(ic_findings) : PassedThroughDecision(k)

\* A finding of one of these agents whose flag differs from the rule's
\* default (public access block on a website bucket) is reached.
DecidedAgainstDefault ==
    /\ RulesApplied
    /\ ic_svc = "s3"
    /\ \E k \in 1..Len(ic_findings) :
        /\ ic_findings[k].rule_id = "s3_public_access_block"
        /\ ~ic_findings[k].auto_safe
        /\ PassedThroughDecision(k)

(***************************************************************************)
(*     THE ORDER OF THE TIERS FOR ONE RESOURCE                             *)
(* scan runs one loop over the resources per tier, one loop after the      *)
(* other.                                                                  *)
(***************************************************************************)

\* The stage has run for resource i: it classified the resource.
StageRan(stage, i) ==
    \E u \in sc_used : u[1] = stage /\ u[2] = i

\* Tier 1 has finished for resource i: the rule loop has gone past it.
Tier1Finished(i) ==
    StageRan("tier1", i) /\ (sc_pc = "tier1" => i < sc_i)

\* Tier 2 has finished for resource i: the search loop has gone past it.
Tier2Finished(i) ==
    StageRan("tier2", i) /\ (sc_pc = "tier2" => i < sc_i)

\* C31: within one resource the tiers run in the order 1, 2, 3: Tier 2 for a
\* resource does not start before Tier 1 has finished for it, Tier 3 does not
\* start before Tier 2 has finished for it.
C31_TiersInOrder ==
    /\ sc_pc = "tier2" => Tier1Finished(sc_i)
    /\ sc_pc = "tier3" => Tier1Finished(sc_i) /\ Tier2Finished(sc_i)
    /\ \A i \in 1..Len(sc_names) :
        /\ StageRan("tier2", i) => Tier1Finished(i)
        /\ StageRan("tier3", i) => Tier2Finished(i)

\* C31 witness: the generative tier has run for the second resource of a
\* scan, after the rule loop and the search loop went through it.
C31_Witness ==
    /\ Len(sc_names) >= 2
    /\ StageRan("tier3", 2)
    /\ StageRan("tier2", 2)
    /\ StageRan("tier1", 2)

(***************************************************************************)
(*     THE TIER TAG OF THE FINDINGS THE DEDUPLICATOR IS GIVEN              *)
(***************************************************************************)

\* The tier that produced a finding, by the loop that appended it: the rule
\* loop tags its findings "rule" (or "rule_error"), the knowledge-base loop
\* "rag", the generative loop "llm".
ProducingTier(f) ==
    CASE f.source \in {"rule", "rule_error"} -> 1
      [] f.source \in {"rag", "doc_search"} -> 2
      [] OTHER -> 3

\* scan is about to call _deduplicate_findings(findings).
AtDeduplicator ==
    sc_pc = "return" /\ sc_svc # "ec2"

\* C32: every finding that reaches the deduplicator carries a tier tag, and
\* the tag is the tier that produced the finding: 1 for a rule finding, 2 for
\* a retrieval finding, 3 for a generative finding.
C32_EveryFindingTagged ==
    AtDeduplicator =>
        \A k \in DOMAIN sc_findings :
            /\ "tier" \in DOMAIN sc_findings[k]
            /\ sc_findings[k].tier = ProducingTier(sc_findings[k])

\* What holds: a tag that is there is the tier of the loop that appended the
\* finding, and the findings of the knowledge-base loop all have one.
TagsPresentAreRight ==
    AtDeduplicator =>
        \A k \in DOMAIN sc_findings :
            /\ "tier" \in DOMAIN sc_findings[k]
                => sc_findings[k].tier = ProducingTier(sc_findings[k])
            /\ sc_findings[k].source = "rag" => "tier" \in DOMAIN sc_findings[k]

\* Findings of the second and the third tier reach the deduplicator tagged.
TaggedFindingsReachDeduplicator ==
    /\ AtDeduplicator
    /\ \E k \in DOMAIN sc_findings :
        "tier" \in DOMAIN sc_findings[k] /\ sc_findings[k].tier = 2
    /\ \E k \in DOMAIN sc_findings :
        "tier" \in DOMAIN sc_findings[k] /\ sc_findings[k].tier = 3

(***************************************************************************)
(*     THE INTENT THE FINDINGS OF ONE RESOURCE CARRY                       *)
(* Every loop of scan calls detect_intent again for the resource at hand;  *)
(* the document-search loop calls it only for a resource without findings  *)
(* and otherwise reads the locals "intent, confidence" as they are.        *)
(***************************************************************************)

\* The finding is about the resource at position i.  A user and a role of
\* one name are two resources: scans of names that are shared are left out.
AboutResource(f, i) ==
    RefersTo(f, sc_names[i])

NamesDistinct ==
    \A i, j \in DOMAIN sc_names : sc_names[i] = sc_names[j] => i = j

\* C33: within one scan all findings of one resource carry the same intent
\* and intent confidence, whichever tier produced them, and it is the intent
\* classified for that resource, never the one classified for another.
C33_OneIntentPerResource ==
    \A k \in DOMAIN sc_findings, i \in DOMAIN sc_names :
        (NamesDistinct /\ AboutResource(sc_findings[k], i)) =>
            /\ sc_findings[k].intent.of = i
            /\ \A m \in DOMAIN sc_findings :
                AboutResource(sc_findings[m], i)
                    => sc_findings[m].intent = sc_findings[k].intent

\* What holds: the findings of the rule loop, of the knowledge-base loop and
\* of the generative loop carry one classification per resource, that of the
\* resource itself.
TiersCarryOwnIntent ==
    \A k \in DOMAIN sc_findings, i \in DOMAIN sc_names :
        (/\ NamesDistinct
         /\ AboutResource(sc_findings[k], i)
         /\ \/ "tier" \in DOMAIN sc_findings[k]
            \/ sc_findings[k].source \in {"rule", "rule_error"})
            => /\ sc_findings[k].intent.of = i
               /\ sc_findings[k].intent.user_intent
                    = user_intent_at("tier1", sc_intent_input, sc_names[i])

\* Findings of the rule loop and of the generative loop for the second
\* resource of a scan, both with the classification of that resource under
\* the label the caller gave for all resources.
TiersOneIntent ==
    /\ Len(sc_names) >= 2
    /\ NamesDistinct
    /\ \E k, n \in DOMAIN sc_findings :
        /\ AboutResource(sc_findings[k], 2) /\ sc_findings[k].source = "rule"
        /\ AboutResource(sc_findings[n], 2) /\ "tier" \in DOMAIN sc_findings[n]
        /\ sc_findings[n].tier = 3
        /\ sc_findings[k].intent = sc_findings[n].intent
        /\ sc_findings[k].intent = [of |-> 2, user_intent |-> "web"]

(***************************************************************************)
(*     FINDINGS OF THE SECOND AND THE THIRD TIER ARE NEVER AUTO-SAFE       *)
(***************************************************************************)

\* scan returned its list: format_for_fixer keeps the order of the findings,
\* entry k of the list is made of finding k.
ScanReturnedList ==
    sc_pc \in {"done", "dispatched"} /\ sc_result.exception = NoneVal

\* The finding was not appended by the rule loop.
NotOfTier1(f) ==
    f.source \notin {"rule", "rule_error"}

\* C34: no finding of the retrieval tier or of the generative tier is
\* auto-safe, in the list of the scan and in the list it returns to the
\* fixer: only findings of the rule tier can be fixed automatically.
C34_OnlyTier1IsAutoSafe ==
    /\ \A k \in DOMAIN sc_findings :
        NotOfTier1(sc_findings[k]) => ~Get(sc_findings[k], "auto_safe", FALSE)
    /\ ScanReturnedList =>
        \A k \in DOMAIN sc_result.value :
            sc_result.value[k].auto_safe
                => sc_findings[k].source = "rule"

\* C34 witness: a scan returned a list with a generative finding, which is
\* not auto-safe, and a rule finding, which is.
C34_Witness ==
    /\ ScanReturnedList
    /\ \E k, m \in DOMAIN sc_result.value :
        /\ sc_findings[k].source = "llm"
        /\ "tier" \in DOMAIN sc_findings[k]
        /\ ~sc_result.value[k].auto_safe
        /\ sc_findings[m].source = "rule"
        /\ sc_result.value[m].auto_safe

(***************************************************************************)
(*     THE CALLS TO THE CLOUD PROVIDER: S3Agent.scan ON ONE BUCKET, THEN   *)
(*     FixerAgent.apply ON THE LIST scan RETURNED                          *)
(* A client method is written [verb, what]: get_bucket_website is          *)
(* [verb |-> "get", what |-> "bucket_website"].                            *)
(***************************************************************************)

Api(verb, what) ==
    [verb |-> verb, what |-> what]

\* The methods that read: every other method of the client changes the
\* bucket (put_*, delete_*) or creates something (create_*).
StateChanging(api) ==
    api.verb \notin {"get", "list", "describe", "head"}

\* S3Agent.scan line 88; IntentDetector._check_website_config,
\* _analyze_bucket_contents and _analyze_storage_classes, which run when no
\* intent was supplied.
S3IntentCalls(explicit) ==
    IF explicit THEN {}
    ELSE { Api("get", "bucket_website"), Api("list", "objects_v2") }

\* The calls of a rule's check (check_with_intent when the rule has one).
\* WebsiteHostingRule returns at once for a bucket of another intent.
S3CheckCallsMutCheckRepairs(rule_id, intent) ==
    CASE rule_id = "s3_unencrypted_bucket" -> { Api("get", "bucket_encryption") }
      [] rule_id = "s3_intent_conversion" ->
            { Api("get", "bucket_website"), Api("get", "public_access_block") }
      [] rule_id = "s3_public_access_block" ->
            { Api("get", "bucket_policy"), Api("get", "bucket_acl"),
              Api("get", "public_access_block") }
      [] rule_id = "s3_versioning_disabled" ->
            { Api("get", "bucket_versioning"), Api("put", "bucket_versioning") }
      [] OTHER ->
            IF intent # "website_hosting" THEN {}
            ELSE { Api("get", "bucket_website"), Api("list", "objects_v2"),
                   Api("get", "bucket_policy") }

S3CheckCalls(rule_id, intent) ==
    CASE rule_id = "s3_unencrypted_bucket" -> { Api("get", "bucket_encryption") }
      [] rule_id = "s3_intent_conversion" ->
            { Api("get", "bucket_website"), Api("get", "public_access_block") }
      [] rule_id = "s3_public_access_block" ->
            { Api("get", "bucket_policy"), Api("get", "bucket_acl"),
              Api("get", "public_access_block") }
      [] rule_id = "s3_versioning_disabled" -> { Api("get", "bucket_versioning") }
      [] OTHER ->
            IF intent # "website_hosting" THEN {}
            ELSE { Api("get", "bucket_website"), Api("list", "objects_v2"),
                   Api("get", "bucket_policy") }

\* S3Agent._get_bucket_config, called by the knowledge-base loop and by the
\* generative loop.
S3ConfigCalls ==
    { Api("get", what) :
        what \in {"bucket_encryption", "public_access_block", "bucket_versioning",
                  "bucket_logging", "bucket_policy", "bucket_acl", "bucket_website",
                  "bucket_lifecycle_configuration", "bucket_tagging"} }

\* "if auto_safe: finding['fix'] = ..." of the rule loop, and
\* format_for_fixer's "f.get('fix')" or _get_fix_action(rule_id).
S3FixAction(rule_id, auto_safe) ==
    IF ~auto_safe THEN get_fix_action(rule_id)
    ELSE IF rule_id = "s3_public_access_block" THEN "fix_public_access"
    ELSE IF rule_id = "s3_unencrypted_bucket" THEN "put_bucket_encryption"
    ELSE IF rule_id = "s3_website_hosting" THEN "fix_website_hosting"
    ELSE "rule_based_fix"

\* The calls of Executor.run for a finding of the S3 agent:
\* _fix_public_access, _fix_website_hosting (WebsiteHostingRule.fix of a new
\* rule object: the standard fix), _apply_rule_fix (IntentConversionRule.fix
\* calls nothing, an id it does not know raises), "manual_review", and
\* otherwise the client method of the action's name.
ExecutorCalls(f) ==
    CASE f.action = "fix_public_access" ->
            { Api("put", "public_access_block"), Api("delete", "bucket_policy"),
              Api("put", "bucket_acl") }
      [] f.action = "fix_website_hosting" ->
            { Api("list", "objects_v2"), Api("put", "bucket_website"),
              Api("put", "public_access_block"), Api("put", "bucket_policy") }
      [] f.action = "rule_based_fix" ->
            IF f.rule_id = "s3_unencrypted_bucket"
            THEN { Api("put", "bucket_encryption") }
            ELSE {}
      [] f.action = "manual_review" -> {}
      [] OTHER -> { Api("put", "bucket_encryption") }

\* The calls noted with the phase they were made in and the finding they
\* were made for (0 in the detection phase).
Noted(phase, k, apis) ==
    { [phase |-> phase, finding |-> k, api |-> a] : a \in apis }

CallsIntents ==
    { <<intent, confidence>> :
        intent \in {"website_hosting", "data_storage", "unknown"},
        confidence \in {30, 85, 100} }

CallsInit ==
    /\ ca_pc = "list"
    /\ ca_intent = <<>>
    /\ ca_rule = 0
    /\ ca_findings = <<>>
    /\ ca_k = 0
    /\ ca_calls = {}
    /\ FxIdle
    /\ IcIdle
    /\ DdIdle
    /\ ScIdle
    /\ RlIdle
    /\ PlIdle
    /\ DcIdle
    /\ SnIdle
    /\ OdIdle

\* S3Agent.scan, line 88: buckets = self.client.list_buckets()["Buckets"]
Calls_List ==
    /\ ca_pc = "list"
    /\ ca_calls' = ca_calls \cup Noted("detect", 0, { Api("list", "buckets") })
    /\ ca_pc' = "intent"
    /\ UNCHANGED <<ca_intent, ca_rule, ca_findings, ca_k>>
    /\ UNCHANGED nonCaVars

\* S3Agent.scan, lines 99-113: detect_intent for the bucket; confidence 1.0
\* is that of an intent the caller supplied
Calls_Intent ==
    /\ ca_pc = "intent"
    /\ \E result \in CallsIntents :
        /\ ca_intent' = result
        /\ ca_calls' = ca_calls \cup Noted("detect", 0, S3IntentCalls(result[2] = 100))
    /\ ca_rule' = 1
    /\ ca_pc' = "rules"
    /\ UNCHANGED <<ca_findings, ca_k>>
    /\ UNCHANGED nonCaVars

\* S3Agent.scan, lines 121-207: one pass of "for rule in self.rules"
Calls_Check ==
    /\ ca_pc = "rules"
    /\ LET rule == S3Rules[ca_rule]
           apis == S3CheckCalls(rule.id, ca_intent[1])
           auto_safe == S3_should_auto_apply(rule, ca_intent[1], ca_intent[2])
       IN  /\ ca_calls' = ca_calls \cup Noted("detect", 0, apis)
           /\ \E issue_found \in (IF apis = {} THEN {FALSE} ELSE BOOLEAN) :
                ca_findings' =
                    IF issue_found
                    THEN Append(ca_findings,
                                [rule_id |-> rule.id, auto_safe |-> auto_safe,
                                 action |-> S3FixAction(rule.id, auto_safe)])
                    ELSE ca_findings
    /\ ca_rule' = IF ca_rule < Len(S3Rules) THEN ca_rule + 1 ELSE 0
    /\ ca_pc' = IF ca_rule < Len(S3Rules) THEN "rules" ELSE "config"
    /\ UNCHANGED <<ca_intent, ca_k>>
    /\ UNCHANGED nonCaVars

\* S3Agent.scan, lines 223-305: the loops of the second and the third tier
\* read the configuration of the bucket
Calls_Config ==
    /\ ca_pc = "config"
    /\ ca_calls' = ca_calls \cup Noted("detect", 0, S3ConfigCalls)
    /\ ca_k' = 1
    /\ ca_pc' = IF ca_findings = <<>> THEN "done" ELSE "apply"
    /\ UNCHANGED <<ca_intent, ca_rule, ca_findings>>
    /\ UNCHANGED nonCaVars

\* FixerAgent.apply, lines 31-55, on the list of the scan: one pass of
\* "for finding in findings"
Calls_Apply ==
    /\ ca_pc = "apply"
    /\ ca_calls' = IF ca_findings[ca_k].auto_safe
                   THEN ca_calls \cup Noted("fix", ca_k, ExecutorCalls(ca_findings[ca_k]))
                   ELSE ca_calls
    /\ ca_k' = ca_k + 1
    /\ ca_pc' = IF ca_k < Len(ca_findings) THEN "apply" ELSE "done"
    /\ UNCHANGED <<ca_intent, ca_rule, ca_findings>>
    /\ UNCHANGED nonCaVars

CallsNext ==
    \/ Calls_List
    \/ Calls_Intent
    \/ Calls_Check
    \/ Calls_Config
    \/ Calls_Apply

SpecCalls == CallsInit /\ [][CallsNext]_vars

C36_AutoFixOffLeavesAllPending ==
    (pl_pc = "done" /\ pl_auto_fix = FALSE) =>
        LET fs == pl_report.findings.findings[pl_svc]
        IN  /\ pl_report.auto_fixes_applied = <<>>
            /\ \A k \in DOMAIN fs :
                EntriesFor(pl_report.pending_fixes, fs[k]) # {}

\* What does hold, with auto_fix true as with auto_fix false: nothing is
\* applied, since apply is handed the dispatcher's dict and finds no list
\* in it.
NothingAppliedWhateverAutoFix ==
    pl_pc = "done" => pl_report.auto_fixes_applied = <<>>

\* A scan with auto_fix false whose report has findings and no pending entry
AutoFixOffFindingsNotPending ==
    /\ pl_pc = "done"
    /\ pl_auto_fix = FALSE
    /\ pl_report.findings.findings[pl_svc] # <<>>
    /\ pl_report.pending_fixes = <<>>

(***************************************************************************)
(* The supervisor before assume() has succeeded.                           *)
(***************************************************************************)

\* No scan was dispatched, no fix executed and nothing returned.
NothingDispatched ==
    /\ pl_scan = <<>>
    /\ pl_findings = <<>>
    /\ pl_report = <<>>
    /\ pl_manual = <<>>
    /\ fx_pc = "idle"
    /\ applied_fixes = <<>>
    /\ pending_fixes = <<>>

\* C39: as long as assume() has not succeeded on the supervisor, a call of
\* scan_and_fix or apply_manual_fix ends in RuntimeError, and no scan has
\* been dispatched and no fix executed.
C39_NoCredsRaisesFirst ==
    /\ pl_creds = NoneVal =>
        /\ pl_pc \in {"new", "raised"}
        /\ NothingDispatched
    /\ pl_pc = "raised" =>
        /\ pl_creds = NoneVal
        /\ pl_raised \in {"scan_and_fix", "apply_manual_fix"}

C39_Witness ==
    /\ pl_pc = "raised"
    /\ pl_raised = "apply_manual_fix"
    /\ pl_creds = NoneVal
    /\ NothingDispatched

\* With credentials both methods go through.
CallsWithCredsGoThrough ==
    /\ pl_pc = "manual"
    /\ pl_manual.executed
    /\ pl_raised = NoneVal

(***************************************************************************)
(* The deduplication and the order of its input                            *)
(***************************************************************************)

\* The input with its positions permuted by p.
Permuted(fs, p) ==
    [i \in 1..Len(fs) |-> fs[p[i]]]

\* The permutations of the input that move a finding only to the position
\* of a finding of the same tier key.
SameTierPermutations(fs) ==
    { p \in [1..Len(fs) -> 1..Len(fs)] :
        /\ \A i, j \in 1..Len(fs) : i # j => p[i] # p[j]
        /\ \A i \in 1..Len(fs) : TierKey(fs[p[i]]) = TierKey(fs[i]) }

RetainedSet(fs) ==
    { deduplicate_findings(fs)[k] : k \in DOMAIN deduplicate_findings(fs) }

RetainedKeys(fs) ==
    { DedupKey(x) : x \in RetainedSet(fs) }

\* C37: permuting findings of the input that have the same tier does not
\* change the set of findings retained in the result.
C37_SameTierOrderDoesNotMatter ==
    dd_pc = "done" =>
        \A p \in SameTierPermutations(dd_input) :
            RetainedSet(Permuted(dd_input, p)) = RetainedSet(dd_input)

\* What does hold: the keys of the retained findings are the same, and so is
\* their number; which finding stands for a key is what the order decides.
SameTierOrderKeepsKeys ==
    dd_pc = "done" =>
        \A p \in SameTierPermutations(dd_input) :
            /\ RetainedKeys(Permuted(dd_input, p)) = RetainedKeys(dd_input)
            /\ Len(deduplicate_findings(Permuted(dd_input, p))) = Len(dd_result)

\* Two knowledge-base findings of one bucket (tier 2, no "issue" key, so
\* one key): the one handed in first is the one retained.
FirstOfTwoDocumentsRetained ==
    /\ dd_pc = "done"
    /\ dd_input = << [resource |-> "b1", source |-> "rag", tier |-> 2, doc_id |-> 1],
                     [resource |-> "b1", source |-> "rag", tier |-> 2, doc_id |-> 2] >>
    /\ dd_result = << dd_input[1] >>
    /\ RetainedSet(<< dd_input[2], dd_input[1] >>) = { dd_input[2] }

(***************************************************************************)
(* Automatic detection when no signal fires                                *)
(***************************************************************************)

\* The signals _auto_detect_intent collects for a bucket and an instance.
S3_signals(bucket) ==
    <<S3_analyze_bucket_name(bucket.name),
      S3_check_website_config(bucket),
      S3_analyze_bucket_contents(bucket),
      S3_analyze_storage_classes(bucket)>>

EC2_signals(instance) ==
    <<EC2_analyze_instance_tags(instance),
      EC2_analyze_instance_type(instance),
      EC2_analyze_security_groups(instance),
      EC2_analyze_network_config(instance),
      EC2_analyze_storage_config(instance)>>

\* The automatic detection ran on a configuration that was fetched, and no
\* signal fired: no analysis came back with a confidence above 0.5 (S3,
\* EC2, IAM), no indicator was found in the text (Lambda).
NoSignalFired ==
    /\ AutoDetected
    /\ ~ConfigFetchFailed
    /\ CASE ic_svc = "s3" -> KeptSignals(S3_signals(ic_res)) = <<>>
         [] ic_svc = "ec2" -> KeptSignals(EC2_signals(ic_res)) = <<>>
         [] ic_svc = "iam" -> KeptSignals(IAM_signals(ic_res)) = <<>>
         [] OTHER ->
            LET scores == Lambda_scores(Lambda_analysis_text(ic_res, ic_desc))
            IN  \A j \in DOMAIN scores : scores[j][2] = 0

\* C38: when no automatic signal fires, the intent returned is not unknown
\* and its confidence is low, about 0.3 (here: 0.2 to 0.4).
C38_NoSignalGivesDefaultIntent ==
    NoSignalFired =>
        /\ ic_result[1] # "unknown"
        /\ ic_result[2] \in 20..40

\* S3, EC2 and IAM do so: the default of the resource type, at 0.3 (0.4 for
\* a stopped instance).
S3EC2IAMNoSignalGivesDefault ==
    (NoSignalFired /\ ic_svc # "lambda") =>
        /\ ic_result[3] = "default"
        /\ ic_result[1] # "unknown"
        /\ ic_result[2] = IF ic_svc = "ec2" /\ ic_res.state = "stopped" THEN 40 ELSE 30

\* Lambda: a function whose text holds no indicator comes back as unknown
\* with confidence 0.0.
LambdaNoSignalGivesUnknown ==
    /\ NoSignalFired
    /\ ic_svc = "lambda"
    /\ ic_result = <<"unknown", 0, "none">>

S3NoSignalGivesDataStorage ==
    /\ NoSignalFired
    /\ ic_svc = "s3"
    /\ ic_result = <<"data_storage", 30, "default">>

EC2NoSignalGivesApplicationServer ==
    /\ NoSignalFired
    /\ ic_svc = "ec2"
    /\ ic_result = <<"application_server", 30, "default">>

====
